---- MODULE Spec2Model ----
(***************************************************************************)
(* Mio-Gallery (api/main.py): the metadata document, the per-session       *)
(* access state, the files under photo/, and the request handlers that     *)
(* read and change them.                                                   *)
(*                                                                         *)
(* Strings are sequences of one-character strings, so that strip(),        *)
(* lower() and secure_filename() are computed and not assumed.  An image   *)
(* id "YYYYMMDD_HHMMSS_<hash12>" is the pair <<capture time, hash>>: the   *)
(* id is fixed-width, so its lexicographic order is the order of pairs.    *)
(***************************************************************************)
EXTENDS Integers, Sequences, FiniteSets, TLC

\* ---------------------------------------------------------------- bounds
\* The most albums the admin keeps at once (guard of the create action).
MaxAlbums == 2

\* ------------------------------------------------------------- strings
\* Python's None; no string has an element of more than one character.
None == <<"None">>

WhiteSpace == {" "}

UpperCase == {"A", "P"}

Lower(c) ==
    CASE c = "A" -> "a"
      [] c = "P" -> "p"
      [] c = "O" -> "o"
      [] OTHER -> c

\* str.lower()
StrLower(s) == [k \in 1..Len(s) |-> Lower(s[k])]

RECURSIVE LStrip(_)
LStrip(s) ==
    IF s = <<>> THEN s
    ELSE IF Head(s) \in WhiteSpace THEN LStrip(Tail(s)) ELSE s

RECURSIVE RStrip(_)
RStrip(s) ==
    IF s = <<>> THEN s
    ELSE IF s[Len(s)] \in WhiteSpace THEN RStrip(SubSeq(s, 1, Len(s) - 1)) ELSE s

\* str.strip()
Strip(s) == RStrip(LStrip(s))

\* The string literals the handlers compare with.
STR_public == <<"p", "u", "b", "l", "i", "c">>
STR_all == <<"a", "l", "l">>
STR_none == <<"n", "o", "n", "e">>
STR_null == <<"n", "u", "l", "l">>
STR_album == <<"a", "l", "b", "u", "m">>

ADMIN_PASSWORD == <<"A", "d", "m", "i", "n", "1", "2", "3">>

\* --------------------------------------------------------------- values
Sessions == {"s1", "s2"}

\* The uploads the admin has at hand: <<capture time, content hash>>.
ImageIds == {<<1, 1>>, <<2, 1>>}

\* An id no upload produces (a request may still name it).
GhostId == <<9, 9>>

RequestIds == ImageIds \cup {GhostId}

\* Files of an image: <<kind, image id>>.  webp and avif lie in
\* photo/YYYY/MM/, thumb in photo/thumb/, jpg in photo/download/ and txt in
\* photo/description/; all carry the image id as their stem.
MonthKinds == {"webp", "avif"}
Kinds == {"webp", "avif", "thumb", "jpg", "txt"}

EmptyMap == [k \in {} |-> TRUE]

Put(f, k, v) == [x \in DOMAIN f \cup {k} |-> IF x = k THEN v ELSE f[x]]

Pop(f, k) == [x \in DOMAIN f \ {k} |-> f[x]]

\* dict.get(k): None when the key is missing.
Get(f, k) == IF k \in DOMAIN f THEN f[k] ELSE None

\* The metadata document: a missing key reads as an empty mapping
\* (_meta_get_albums, _meta_get_image_album, meta.get("pinned", {})).
EmptyDoc ==
    [pinned |-> EmptyMap, datetime |-> EmptyMap, albums |-> EmptyMap,
     image_album |-> EmptyMap]

\* The requests that may be in flight together.
Slots == {1, 2}

VARIABLES
    metaFile,   \* photo/.meta.json: [state, doc]
    files,      \* the files under photo/: a set of <<kind, image id>>
    desc,       \* photo/description/<id>.txt: image id -> text
    session,    \* per caller: [is_admin, unlocked_albums]
    upl,        \* the upload request in flight, if any
    reqs,       \* the pin requests in flight: slot -> [stage, ...]
    tmpFile     \* photo/.meta.json.tmp: [state, doc]

vars == <<metaFile, files, desc, session, upl, reqs, tmpFile>>

\* What a handler returns: the response, and the state it leaves.
Result(status, body) ==
    [status |-> status, body |-> body, metaFile |-> metaFile, files |-> files,
     desc |-> desc, session |-> session]

\* The step of a request that runs from start to end with no other request
\* in between.
Apply(r) ==
    /\ metaFile' = r.metaFile
    /\ files' = r.files
    /\ desc' = r.desc
    /\ session' = r.session
    /\ UNCHANGED <<upl, reqs, tmpFile>>

\* -------------------------------------------------------- metadata store
\* Variant: what can be read of a damaged file is returned.
_load_meta_KeepsDamaged == metaFile.doc

_load_meta ==
    IF metaFile.state = "ok" THEN metaFile.doc ELSE EmptyDoc

\* The members of a mapping, one after the other, as the text lists them.
RECURSIVE Members(_, _)
Members(field, f) ==
    IF DOMAIN f = {} THEN <<>>
    ELSE LET k == CHOOSE x \in DOMAIN f : TRUE
         IN  <<<<field, k, f[k]>>>> \o Members(field, Pop(f, k))

\* Variant: nested objects are left out of the text.
json_dumps_DropsNested(meta) ==
    Members("pinned", [k \in DOMAIN meta.pinned |-> "true"])
    \o Members("datetime", meta.datetime)
    \o Members("image_album", meta.image_album)

\* json.dumps(meta): the text of the document, member by member; true is
\* written as the literal true and an album as a nested object.
json_dumps(meta) ==
    Members("pinned", [k \in DOMAIN meta.pinned |-> "true"])
    \o Members("datetime", meta.datetime)
    \o Members("albums", [k \in DOMAIN meta.albums |->
            <<"name", meta.albums[k].name,
              "password_hash", meta.albums[k].password_hash>>])
    \o Members("image_album", meta.image_album)

\* json.loads(text): the document built member by member; a key that occurs
\* again replaces the earlier one.
RECURSIVE json_loads(_, _)
json_loads(text, doc) ==
    IF text = <<>> THEN doc
    ELSE LET m == Head(text)
             v == CASE m[1] = "pinned" -> m[3] = "true"
                    [] m[1] = "albums" -> [name |-> m[3][2], password_hash |-> m[3][4]]
                    [] OTHER -> m[3]
         IN  json_loads(Tail(text), [doc EXCEPT ![m[1]] = Put(@, m[2], v)])

\* The stored file is described by the document its text parses to.
_save_meta(m) == [state |-> "ok", doc |-> json_loads(json_dumps(m), EmptyDoc)]

_meta_get_albums(m) == m.albums

_meta_get_image_album(m) == m.image_album

\* ---------------------------------------------------------- access gate
_is_admin(s) == session[s].is_admin

\* Variant: the guard lets every caller through.
_require_admin_Open(s) == <<>>

\* A guard returns <<>> (Python's None: go on) or <<the response to return>>.
_require_admin(s) ==
    IF ~_is_admin(s) THEN <<Result(401, <<"error", "Unauthorized">>)>> ELSE <<>>

_unlocked_album_ids(s) == session[s].unlocked_albums

_normalize_album_id(val) ==
    IF val = None THEN None
    ELSE LET s == Strip(val) IN
         IF s = <<>> THEN None
         ELSE IF StrLower(s) \in {STR_public, STR_none, STR_null} THEN None
         ELSE s

_get_image_album_id(image_id) ==
    LET m == _load_meta
        mapping == _meta_get_image_album(m)
        album_id == Get(mapping, image_id)
    IN  IF album_id = None \/ album_id = <<>> THEN None
        ELSE IF album_id \in DOMAIN _meta_get_albums(m) THEN album_id ELSE None

_get_album_name(album_id) ==
    LET albums == _meta_get_albums(_load_meta) IN
    IF album_id = None \/ album_id = <<>> THEN None
    ELSE IF album_id \in DOMAIN albums THEN albums[album_id].name ELSE None

\* Variant: the unlocked set is not consulted.
_can_access_album_NoUnlock(s, album_id) ==
    IF _is_admin(s) THEN TRUE
    ELSE album_id = None \/ album_id = <<>>

\* Variant: an admin session is treated like any other.
_can_access_album_NoAdmin(s, album_id) ==
    IF album_id = None \/ album_id = <<>> THEN TRUE
    ELSE album_id \in _unlocked_album_ids(s)

_can_access_album(s, album_id) ==
    IF _is_admin(s) THEN TRUE
    ELSE IF album_id = None \/ album_id = <<>> THEN TRUE
    ELSE album_id \in _unlocked_album_ids(s)

_can_access_image(s, image_id) ==
    _can_access_album(s, _get_image_album_id(image_id))

\* Variant: a denied image is answered with 403 forbidden.
_require_image_access_or_404_Forbidden(s, image_id) ==
    IF _can_access_image(s, image_id) THEN <<>>
    ELSE <<Result(403, <<"error", "forbidden">>)>>

_require_image_access_or_404(s, image_id) ==
    IF _can_access_image(s, image_id) THEN <<>>
    ELSE <<Result(404, <<"error", "Image not found">>)>>

\* ------------------------------------------------------------ passwords
\* werkzeug's generate_password_hash / check_password_hash: a one-way digest
\* that no two passwords share (the random salt does not change what matches).
generate_password_hash(password) == <<"pbkdf2", password>>

check_password_hash(pw_hash, password) == pw_hash = <<"pbkdf2", password>>

\* ------------------------------------------------------------- requests
\* A JSON or form field the request may leave out (None).
NameInputs == {None, <<" ", "A">>}

PwInputs == {None, <<"p">>, <<" ", "q">>}

\* s1 is the owner's browser; s2 is a visitor's, who never has the admin
\* password.
LoginInputs(s) == IF s = "s1" THEN {ADMIN_PASSWORD, <<"p">>} ELSE {<<"p">>}

\* `x or ""`
OrEmpty(x) == IF x = None THEN <<>> ELSE x

\* ----------------------------------------------------------- album ids
Digit(n) ==
    CASE n = 0 -> "0" [] n = 1 -> "1" [] n = 2 -> "2" [] n = 3 -> "3"
      [] n = 4 -> "4" [] n = 5 -> "5" [] n = 6 -> "6" [] n = 7 -> "7"
      [] n = 8 -> "8" [] n = 9 -> "9"

RECURSIVE IntStr(_)
IntStr(n) == IF n < 10 THEN <<Digit(n)>> ELSE IntStr(n \div 10) \o <<Digit(n % 10)>>

FilenameChars ==
    {"a", "b", "c", "d", "e", "f", "g", "h", "i", "j", "k", "l", "m", "n", "o",
     "p", "q", "r", "s", "t", "u", "v", "w", "x", "y", "z", "A", "P",
     "0", "1", "2", "3", "4", "5", "6", "7", "8", "9", "_", ".", "-"}

\* "_".join(s.split()): whitespace runs become one "_", the ends are dropped.
RECURSIVE JoinWords(_)
JoinWords(s) ==
    IF s = <<>> THEN <<>>
    ELSE IF Head(s) \in WhiteSpace THEN <<"_">> \o JoinWords(LStrip(s))
    ELSE <<Head(s)>> \o JoinWords(Tail(s))

RECURSIVE StripDots(_)
StripDots(s) ==
    IF s = <<>> THEN s
    ELSE IF Head(s) \in {".", "_"} THEN StripDots(Tail(s))
    ELSE IF s[Len(s)] \in {".", "_"} THEN StripDots(SubSeq(s, 1, Len(s) - 1))
    ELSE s

\* werkzeug's secure_filename on ASCII input.
secure_filename(name) ==
    LET seps == [k \in 1..Len(name) |-> IF name[k] = "/" THEN " " ELSE name[k]]
        joined == JoinWords(Strip(seps))
    IN  StripDots(SelectSeq(joined, LAMBDA c : c \in FilenameChars))

RECURSIVE NextFree(_, _, _)
NextFree(base, i, existing) ==
    LET candidate == base \o <<"-">> \o IntStr(i) IN
    IF candidate \in existing THEN NextFree(base, i + 1, existing) ELSE candidate

\* Variant: the slug is used even when it is taken.
_album_id_from_name_NoSuffix(name, existing) ==
    LET slug == StrLower(secure_filename(Strip(OrEmpty(name))))
    IN  IF slug = <<>> THEN STR_album ELSE slug

_album_id_from_name(name, existing) ==
    LET slug == StrLower(secure_filename(Strip(OrEmpty(name))))
        base == IF slug = <<>> THEN STR_album ELSE slug
    IN  IF base \in existing THEN NextFree(base, 2, existing) ELSE base

\* The ids the create handler can hand out under MaxAlbums.
AlbumIds ==
    {<<"a">>} \cup {<<"a", "-">> \o IntStr(k) : k \in 2..MaxAlbums}

\* --------------------------------------------------------------- session
\* POST /manage-login
manage_login(s, pw) ==
    IF Strip(OrEmpty(pw)) = ADMIN_PASSWORD
    THEN [Result(302, <<"redirect", "/manage">>) EXCEPT
            !.session = [session EXCEPT ![s].is_admin = TRUE]]
    ELSE Result(200, <<"page", "Invalid password">>)

\* Variant: the loop stops at the first album that matches.
MatchedAlbums_FirstOnly(albums, password) ==
    LET all == {aid \in DOMAIN albums :
                   check_password_hash(albums[aid].password_hash, password)}
    IN  IF all = {} THEN {} ELSE {CHOOSE aid \in all : TRUE}

\* The albums whose hash the password matches.
MatchedAlbums(albums, password) ==
    {aid \in DOMAIN albums :
        check_password_hash(albums[aid].password_hash, password)}

\* Variant: a wrong password locks the session's albums again.
unlock_album_Relock(s, pw) ==
    LET password == Strip(OrEmpty(pw))
        albums == _meta_get_albums(_load_meta)
        matched == MatchedAlbums(albums, password)
    IN  IF password = <<>> THEN Result(400, <<"error", "missing_password">>)
        ELSE IF matched = {}
        THEN [Result(401, <<"error", "invalid_password">>) EXCEPT
                !.session = [session EXCEPT ![s].unlocked_albums = {}]]
        ELSE [Result(200, <<"unlocked", matched>>) EXCEPT
                !.session = [session EXCEPT
                    ![s].unlocked_albums = _unlocked_album_ids(s) \cup matched]]

\* POST /api/albums/unlock
unlock_album(s, pw) ==
    LET password == Strip(OrEmpty(pw))
        albums == _meta_get_albums(_load_meta)
        matched == MatchedAlbums(albums, password)
    IN  IF password = <<>> THEN Result(400, <<"error", "missing_password">>)
        ELSE IF matched = {} THEN Result(401, <<"error", "invalid_password">>)
        ELSE [Result(200, <<"unlocked", matched>>) EXCEPT
                !.session = [session EXCEPT
                    ![s].unlocked_albums = _unlocked_album_ids(s) \cup matched]]

\* Variant: lock drops one album of the set only.
lock_albums_DropsOne(s) ==
    [Result(200, <<"ok", TRUE>>) EXCEPT
        !.session = [session EXCEPT ![s].unlocked_albums =
            IF @ = {} THEN {} ELSE @ \ {CHOOSE a \in @ : TRUE}]]

\* POST /api/albums/lock
lock_albums(s) ==
    [Result(200, <<"ok", TRUE>>) EXCEPT
        !.session = [session EXCEPT ![s].unlocked_albums = {}]]

\* ---------------------------------------------------------------- albums
\* POST /api/admin/albums
admin_albums(s, name_in, pw_in) ==
    LET meta == _load_meta
        albums == _meta_get_albums(meta)
        name == Strip(OrEmpty(name_in))
        password == Strip(OrEmpty(pw_in))
        aid == _album_id_from_name(name, DOMAIN albums)
    IN  IF _require_admin(s) # <<>> THEN _require_admin(s)[1]
        ELSE IF name = <<>> THEN Result(400, <<"error", "missing_name">>)
        ELSE IF password = <<>> THEN Result(400, <<"error", "missing_password">>)
        ELSE [Result(201, <<"album", aid>>) EXCEPT
                !.metaFile = _save_meta([meta EXCEPT !.albums =
                    Put(albums, aid, [name |-> name,
                        password_hash |-> generate_password_hash(password)])])]

\* Path(album_id).name: what follows the last "/".
RECURSIVE PathName(_)
PathName(p) ==
    IF \E k \in 1..Len(p) : p[k] = "/" THEN PathName(Tail(p)) ELSE p

\* Variant: the album is removed and the assignments to it are left.
admin_album_delete_NoCascade(s, path_id) ==
    LET album_id == PathName(path_id)
        meta == _load_meta
        albums == _meta_get_albums(meta)
    IN  IF _require_admin(s) # <<>> THEN _require_admin(s)[1]
        ELSE IF album_id \notin DOMAIN albums THEN Result(404, <<"error", "not_found">>)
        ELSE [Result(200, <<"ok", TRUE>>) EXCEPT
                !.metaFile = _save_meta([meta EXCEPT !.albums = Pop(albums, album_id)])]

\* DELETE /api/admin/albums/<album_id>
admin_album_delete(s, path_id) ==
    LET album_id == PathName(path_id)
        meta == _load_meta
        albums == _meta_get_albums(meta)
        image_album == _meta_get_image_album(meta)
        kept == {i \in DOMAIN image_album : image_album[i] # album_id}
    IN  IF _require_admin(s) # <<>> THEN _require_admin(s)[1]
        ELSE IF album_id \notin DOMAIN albums THEN Result(404, <<"error", "not_found">>)
        ELSE [Result(200, <<"ok", TRUE>>) EXCEPT
                !.metaFile = _save_meta([meta EXCEPT
                    !.albums = Pop(albums, album_id),
                    !.image_album = [i \in kept |-> image_album[i]]])]

\* PUT /api/admin/albums/<album_id>
admin_album_update(s, path_id, name_in, pw_in) ==
    LET album_id == PathName(path_id)
        meta == _load_meta
        albums == _meta_get_albums(meta)
        name == IF name_in = None THEN None ELSE Strip(name_in)
        password == IF pw_in = None THEN None ELSE Strip(pw_in)
    IN  IF _require_admin(s) # <<>> THEN _require_admin(s)[1]
        ELSE IF album_id \notin DOMAIN albums THEN Result(404, <<"error", "not_found">>)
        ELSE IF name = <<>> THEN Result(400, <<"error", "missing_name">>)
        ELSE LET a == albums[album_id]
                 a1 == IF name = None THEN a ELSE [a EXCEPT !.name = name]
                 a2 == IF password = None \/ password = <<>> THEN a1
                       ELSE [a1 EXCEPT
                               !.password_hash = generate_password_hash(password)]
             IN  [Result(200, <<"album", album_id>>) EXCEPT
                    !.metaFile = _save_meta([meta EXCEPT
                        !.albums = Put(albums, album_id, a2)])]

\* --------------------------------------------------------------- files
_find_files_by_id(image_id) == {f \in files : f[2] = image_id}

AssignInputs == AlbumIds \cup {None, STR_public, <<" ", "a">>, <<"z">>}

\* Variant: the album id of the request is stored unchecked.
admin_set_image_album_Unchecked(s, image_id, album_in) ==
    LET stripped == IF album_in = None THEN None ELSE Strip(album_in)
        album_id == IF stripped \in {None, <<>>, STR_public} THEN None ELSE stripped
        meta == _load_meta
        image_album == _meta_get_image_album(meta)
    IN  IF _require_admin(s) # <<>> THEN _require_admin(s)[1]
        ELSE IF _find_files_by_id(image_id) = {}
        THEN Result(404, <<"error", "Image not found">>)
        ELSE [Result(200, <<"album", album_id>>) EXCEPT
                !.metaFile = _save_meta([meta EXCEPT !.image_album =
                    IF album_id = None THEN Pop(image_album, image_id)
                    ELSE Put(image_album, image_id, album_id)])]

\* PUT /api/admin/images/<image_id>/album
admin_set_image_album(s, image_id, album_in) ==
    LET stripped == IF album_in = None THEN None ELSE Strip(album_in)
        album_id == IF stripped \in {None, <<>>, STR_public} THEN None ELSE stripped
        meta == _load_meta
        albums == _meta_get_albums(meta)
        image_album == _meta_get_image_album(meta)
    IN  IF _require_admin(s) # <<>> THEN _require_admin(s)[1]
        ELSE IF _find_files_by_id(image_id) = {}
        THEN Result(404, <<"error", "Image not found">>)
        ELSE IF album_id # None /\ album_id \notin DOMAIN albums
        THEN Result(404, <<"error", "album_not_found">>)
        ELSE [Result(200, <<"album", album_id>>) EXCEPT
                !.metaFile = _save_meta([meta EXCEPT !.image_album =
                    IF album_id = None THEN Pop(image_album, image_id)
                    ELSE Put(image_album, image_id, album_id)])]

\* --------------------------------------------------------------- upload
STR_truthy == {<<"1">>, <<"t", "r", "u", "e">>, <<"y", "e", "s">>, <<"o", "n">>}

\* The form fields of an upload: <<public, album_id>>.
UploadForms ==
    {<<None, a>> : a \in AlbumIds \cup {None, <<"a", " ">>, <<"z">>}}
        \cup {<<<<"O", "n">>, None>>, <<None, <<"P", "u", "b", "l", "i", "c">>>>}

\* An uploaded file: what the handler finds out about it.  kind is "ok",
\* "empty" (no filename), "badext", "raw" (RAW without rawpy), "toolarge" or
\* "corrupt" (the decoder raises); id is <<photo_date, md5 prefix>>; avif
\* tells whether the AVIF encoder works.
UploadFile(kind, id, avif) == [kind |-> kind, id |-> id, avif |-> avif]

FileInputs ==
    {UploadFile("ok", i, TRUE) : i \in ImageIds}
        \cup {UploadFile("badext", GhostId, FALSE)}

\* convert_and_save_image: the files written for base_name.
convert_and_save_image(f) ==
    {<<"webp", f.id>>} \cup (IF f.avif THEN {<<"avif", f.id>>} ELSE {})

\* Lines 941-957: the metadata document after one file.
UploadMeta(meta, base_name, upload_album_id) ==
    [meta EXCEPT
        !.datetime = Put(meta.datetime, base_name, base_name[1]),
        !.image_album = IF upload_album_id # None
                        THEN Put(meta.image_album, base_name, upload_album_id)
                        ELSE meta.image_album]

\* One turn of the loop over the files: acc is [files, metaFile, results, errors].
UploadOne(acc, f, upload_album_id) ==
    IF f.kind = "empty"
    THEN [acc EXCEPT !.errors = Append(@, "No selected file")]
    ELSE IF f.kind = "badext"
    THEN [acc EXCEPT !.errors = Append(@, "File type not allowed")]
    ELSE IF f.kind = "raw"
    THEN [acc EXCEPT !.errors = Append(@, "RAW support requires rawpy")]
    ELSE IF f.kind = "toolarge"
    THEN [acc EXCEPT !.errors = Append(@, "File too large (max 50MB)")]
    ELSE IF f.kind = "corrupt"
    THEN [acc EXCEPT !.errors = Append(@, "cannot identify image file")]
    ELSE LET meta == IF acc.metaFile.state = "ok" THEN acc.metaFile.doc ELSE EmptyDoc
         IN  [acc EXCEPT
                !.files = @ \cup convert_and_save_image(f),
                !.metaFile = _save_meta(UploadMeta(meta, f.id, upload_album_id)),
                !.results = Append(@, f.id)]

\* Variant: the loop ends at the first file that is turned down.
RECURSIVE UploadLoop_StopsAtError(_, _, _)
UploadLoop_StopsAtError(acc, batch, upload_album_id) ==
    IF batch = <<>> THEN acc
    ELSE IF Head(batch).kind # "ok" THEN UploadOne(acc, Head(batch), upload_album_id)
    ELSE UploadLoop_StopsAtError(UploadOne(acc, Head(batch), upload_album_id),
                                 Tail(batch), upload_album_id)

RECURSIVE UploadLoop(_, _, _)
UploadLoop(acc, batch, upload_album_id) ==
    IF batch = <<>> THEN acc
    ELSE UploadLoop(UploadOne(acc, Head(batch), upload_album_id), Tail(batch),
                    upload_album_id)

\* Lines 873-891: <<>> or the response that refuses the request.
UploadRefusal(s, public_in, album_in, batch) ==
    LET albums_for_upload == _meta_get_albums(_load_meta)
        public_flag == StrLower(Strip(OrEmpty(public_in))) \in STR_truthy
        upload_album_id == _normalize_album_id(album_in)
    IN  IF _require_admin(s) # <<>> THEN _require_admin(s)
        ELSE IF upload_album_id # None /\ upload_album_id \notin DOMAIN albums_for_upload
        THEN <<Result(404, <<"error", "album_not_found">>)>>
        ELSE IF ~public_flag /\ upload_album_id = None /\ DOMAIN albums_for_upload # {}
        THEN <<Result(400, <<"error", "missing_album">>)>>
        ELSE IF batch = <<>>
        THEN <<Result(400, <<"error", "No image file provided">>)>>
        ELSE <<>>

\* POST /api/upload
upload_image(s, public_in, album_in, batch) ==
    LET refusal == UploadRefusal(s, public_in, album_in, batch)
        done == UploadLoop([files |-> files, metaFile |-> metaFile,
                            results |-> <<>>, errors |-> <<>>],
                           batch, _normalize_album_id(album_in))
    IN  IF refusal # <<>> THEN refusal[1]
        ELSE [Result(IF done.results # <<>> THEN 200 ELSE 400,
                     <<"uploaded", done.results, done.errors>>) EXCEPT
                !.files = done.files, !.metaFile = done.metaFile]

\* --------------------------------------------------------------- listing
\* A date parameter: a day, NoDate when left out, BadDate when malformed.
NoDate == 0

BadDate == -1

_extract_datetime_from_id(image_id) == image_id[1]

_load_description(image_id) == IF image_id \in DOMAIN desc THEN desc[image_id] ELSE <<>>

\* datetime_map entry, else the time the id carries.
DisplayDate(meta, image_id) ==
    IF image_id \in DOMAIN meta.datetime THEN meta.datetime[image_id]
    ELSE _extract_datetime_from_id(image_id)

IdLess(a, b) == a[1] < b[1] \/ (a[1] = b[1] /\ a[2] < b[2])

\* Variant: images of one pin state and date are listed by descending id.
SortKeyLess_DescendingId(x, y) ==
    LET px == IF x.pinned THEN 0 ELSE 1
        py == IF y.pinned THEN 0 ELSE 1
    IN  \/ px < py
        \/ px = py /\ -x.date < -y.date
        \/ px = py /\ x.date = y.date /\ IdLess(y.id, x.id)

\* _sort_key: (0 if pinned else 1, -date, id)
SortKeyLess(x, y) ==
    LET px == IF x.pinned THEN 0 ELSE 1
        py == IF y.pinned THEN 0 ELSE 1
    IN  \/ px < py
        \/ px = py /\ -x.date < -y.date
        \/ px = py /\ x.date = y.date /\ IdLess(x.id, y.id)

RECURSIVE SortImages(_)
SortImages(S) ==
    IF S = {} THEN <<>>
    ELSE LET m == CHOOSE x \in S : \A y \in S \ {x} : SortKeyLess(x, y)
         IN  <<m>> \o SortImages(S \ {m})

\* Variant: an unknown album id is kept as it is.
ListAlbumId_NoNormalize(meta, base_name) ==
    LET raw == Get(_meta_get_image_album(meta), base_name)
    IN  IF raw = None \/ raw = <<>> THEN None ELSE Strip(raw)

\* The album the list path resolves for an image (lines 1067-1076).
ListAlbumId(meta, base_name) ==
    LET raw == Get(_meta_get_image_album(meta), base_name)
        img_album_id == IF raw = None \/ raw = <<>> THEN None ELSE Strip(raw)
    IN  IF img_album_id # None /\ img_album_id # <<>>
             /\ img_album_id \notin DOMAIN _meta_get_albums(meta)
        THEN None ELSE img_album_id

\* Variant: an admin session may ask for any album.
ForbiddenFilter_AdminBypass(s, album_filter) ==
    /\ ~_is_admin(s)
    /\ album_filter # <<>>
    /\ album_filter \notin {STR_all, STR_public}
    /\ album_filter \notin _unlocked_album_ids(s)

\* Lines 1019-1022: a specific album is asked for and the session has not
\* unlocked it.
ForbiddenFilter(s, album_filter) ==
    /\ album_filter # <<>>
    /\ album_filter \notin {STR_all, STR_public}
    /\ album_filter \notin _unlocked_album_ids(s)

\* Variant: album="public" keeps every image.
ListKeeps_PublicKeepsAll(s, album_filter, img_album_id) ==
    IF album_filter = STR_public THEN TRUE
    ELSE IF album_filter # <<>> /\ album_filter \notin {STR_all, STR_public}
    THEN img_album_id = album_filter
    ELSE ~(img_album_id # None /\ img_album_id \notin _unlocked_album_ids(s))

\* Variant: album="all" keeps every image.
ListKeeps_AllKeepsAll(s, album_filter, img_album_id) ==
    IF album_filter = STR_public THEN img_album_id = None
    ELSE IF album_filter = STR_all THEN TRUE
    ELSE IF album_filter # <<>> /\ album_filter \notin {STR_all, STR_public}
    THEN img_album_id = album_filter
    ELSE ~(img_album_id # None /\ img_album_id \notin _unlocked_album_ids(s))

\* Variant: a specific album also keeps the images of no album.
ListKeeps_FilterKeepsPublic(s, album_filter, img_album_id) ==
    IF album_filter = STR_public THEN img_album_id = None
    ELSE IF album_filter # <<>> /\ album_filter \notin {STR_all, STR_public}
    THEN img_album_id = album_filter \/ img_album_id = None
    ELSE ~(img_album_id # None /\ img_album_id \notin _unlocked_album_ids(s))

\* Variant: with no filter only the images of no album are kept.
ListKeeps_UnlockedOmitted(s, album_filter, img_album_id) ==
    IF album_filter = STR_public THEN img_album_id = None
    ELSE IF album_filter # <<>> /\ album_filter \notin {STR_all, STR_public}
    THEN img_album_id = album_filter
    ELSE img_album_id = None

\* Lines 1079-1087: whether the listing keeps the image.
ListKeeps(s, album_filter, img_album_id) ==
    IF album_filter = STR_public THEN img_album_id = None
    ELSE IF album_filter # <<>> /\ album_filter \notin {STR_all, STR_public}
    THEN img_album_id = album_filter
    ELSE ~(img_album_id # None /\ img_album_id \notin _unlocked_album_ids(s))

InDateRange(date, start_dt, end_dt) ==
    /\ ~(start_dt # NoDate /\ date < start_dt)
    /\ ~(end_dt # NoDate /\ date > end_dt)

\* The images found under photo/YYYY/MM/, grouped by stem.
ImageGroups == {f[2] : f \in {g \in files : g[1] \in MonthKinds}}

ImageSummary(meta, base_name, img_album_id) ==
    [id |-> base_name,
     date |-> DisplayDate(meta, base_name),
     webp |-> <<"webp", base_name>> \in files,
     avif |-> <<"avif", base_name>> \in files,
     pinned |-> base_name \in DOMAIN meta.pinned,
     description |-> _load_description(base_name),
     album_id |-> img_album_id,
     album_name |-> IF img_album_id # None /\ img_album_id \in DOMAIN meta.albums
                    THEN meta.albums[img_album_id].name ELSE None]

\* GET /api/images
get_images(s, album_in, start_dt, end_dt) ==
    LET album_filter == Strip(OrEmpty(album_in))
        meta == _load_meta
        kept == {b \in ImageGroups :
                    /\ ListKeeps(s, album_filter, ListAlbumId(meta, b))
                    /\ InDateRange(DisplayDate(meta, b), start_dt, end_dt)}
        images == {ImageSummary(meta, b, ListAlbumId(meta, b)) : b \in kept}
    IN  IF start_dt = BadDate \/ end_dt = BadDate
        THEN Result(400, <<"error", "Invalid date format. Use YYYY-MM-DD">>)
        ELSE IF ForbiddenFilter(s, album_filter)
        THEN Result(403, <<"error", "forbidden">>)
        ELSE Result(200, <<"images", SortImages(images)>>)

\* The query of a listing: <<album, start_date, end_date>>.
ListQueries ==
    {<<a, NoDate, NoDate>> : a \in AlbumIds \cup {None, STR_public, STR_all, <<" ", "a">>}}
        \cup {<<None, 2, NoDate>>, <<None, NoDate, 1>>, <<None, BadDate, NoDate>>}

\* ----------------------------------------------------------- one image
_build_image_payload(image_id) ==
    IF _find_files_by_id(image_id) = {} THEN <<>>
    ELSE <<ImageSummary(_load_meta, image_id, _get_image_album_id(image_id))>>

\* GET /api/images/<image_id>
get_image(s, image_id) ==
    LET guard == _require_image_access_or_404(s, image_id)
        payload == _build_image_payload(image_id)
    IN  IF guard # <<>> THEN guard[1]
        ELSE IF payload = <<>> THEN Result(404, <<"error", "Image not found">>)
        ELSE Result(200, <<"json", payload[1]>>)

\* The files _pick_source_file may return: the AVIF, else the WebP, else
\* whichever file rglob lists first.
_pick_source_file(image_id) ==
    LET found == _find_files_by_id(image_id) IN
    IF <<"avif", image_id>> \in found THEN {<<"avif", image_id>>}
    ELSE IF <<"webp", image_id>> \in found THEN {<<"webp", image_id>>}
    ELSE found

\* Image.open succeeds on an image file, not on a description.
Decodable(f) == f[1] \in {"webp", "avif", "thumb", "jpg"}

\* Variant: the thumbnail is encoded and written on every request.
ThumbWrites_EveryRequest(image_id, src) ==
    IF src \notin files \/ ~Decodable(src) THEN {} ELSE {<<"thumb", image_id>>}

\* The paths _ensure_thumbnail writes (lines 410 and 419): none when the
\* thumbnail exists (line 378) or the source cannot be opened.
ThumbWrites(image_id, src) ==
    IF <<"thumb", image_id>> \in files THEN {}
    ELSE IF src \notin files \/ ~Decodable(src) THEN {}
    ELSE {<<"thumb", image_id>>}

\* The files after _ensure_thumbnail; the thumbnail is there iff it returns
\* a path.
_ensure_thumbnail(image_id, src) == files \cup ThumbWrites(image_id, src)

\* The paths the JPG branch of download_image writes (lines 1441-1443): none
\* when the JPEG exists (line 1427) or the source cannot be opened.
JpgWrites(image_id, src) ==
    IF <<"jpg", image_id>> \in files THEN {}
    ELSE IF src \notin files \/ ~Decodable(src) THEN {}
    ELSE {<<"jpg", image_id>>}

\* The sources a handler may be handed for image_id.
Sources(image_id) ==
    IF _pick_source_file(image_id) = {} THEN {<<"none", image_id>>}
    ELSE _pick_source_file(image_id)

\* GET /api/thumb/<image_id>.webp
serve_thumbnail(s, image_id, src) ==
    LET guard == _require_image_access_or_404(s, image_id)
        after == _ensure_thumbnail(image_id, src)
    IN  IF guard # <<>> THEN guard[1]
        ELSE IF _find_files_by_id(image_id) = {}
        THEN Result(404, <<"error", "Image not found">>)
        ELSE IF <<"thumb", image_id>> \notin after
        THEN Result(404, <<"error", "Thumbnail not available">>)
        ELSE [Result(200, <<"file", <<"thumb", image_id>>>>) EXCEPT !.files = after]

STR_avif == <<"a", "v", "i", "f">>
STR_jpg == <<"j", "p", "g">>

FormatInputs == {None, <<"p", "n", "g">>}

\* GET /api/images/<image_id>/download
download_image(s, image_id, format_in, src) ==
    LET guard == _require_image_access_or_404(s, image_id)
        fmt == StrLower(IF OrEmpty(format_in) = <<>> THEN STR_avif ELSE format_in)
        out == <<"jpg", image_id>>
    IN  IF guard # <<>> THEN guard[1]
        ELSE IF _find_files_by_id(image_id) = {}
        THEN Result(404, <<"error", "Image not found">>)
        ELSE IF fmt \notin {STR_avif, STR_jpg}
        THEN Result(400, <<"error", "Invalid format. Use avif|jpg">>)
        ELSE IF fmt = STR_avif
        THEN IF <<"avif", image_id>> \notin files
             THEN Result(404, <<"error", "AVIF not available">>)
             ELSE Result(200, <<"file", <<"avif", image_id>>>>)
        ELSE IF out \in files THEN Result(200, <<"file", out>>)
        ELSE IF src \notin files THEN Result(404, <<"error", "Source not available">>)
        ELSE IF ~Decodable(src) THEN Result(500, <<"error", "JPG conversion failed">>)
        ELSE [Result(200, <<"file", out>>) EXCEPT !.files = files \cup JpgWrites(image_id, src)]

\* GET /api/images/<image_id>/description
image_description_get(s, image_id) ==
    LET guard == _require_image_access_or_404(s, image_id) IN
    IF guard # <<>> THEN guard[1]
    ELSE IF _find_files_by_id(image_id) = {}
    THEN Result(404, <<"error", "Image not found">>)
    ELSE Result(200, <<"json", [id |-> image_id,
                                description |-> _load_description(image_id)]>>)

\* GET /api/images/<path:filename>: the path names a file <<kind, stem>>.
serve_image(s, filename) ==
    IF filename \in files
    THEN LET guard == _require_image_access_or_404(s, filename[2]) IN
         IF guard # <<>> THEN guard[1] ELSE Result(200, <<"file", filename>>)
    ELSE Result(404, <<"error", "Image not found">>)

\* ------------------------------------------------------- admin requests
\* GET /api/admin/images
admin_get_images(s, start_dt, end_dt) ==
    LET meta == _load_meta
        kept == {b \in ImageGroups :
                    InDateRange(DisplayDate(meta, b), start_dt, end_dt)}
        images == {ImageSummary(meta, b, ListAlbumId(meta, b)) : b \in kept}
    IN  IF _require_admin(s) # <<>> THEN _require_admin(s)[1]
        ELSE IF start_dt = BadDate \/ end_dt = BadDate
        THEN Result(400, <<"error", "Invalid date format. Use YYYY-MM-DD">>)
        ELSE Result(200, <<"images", SortImages(images)>>)

\* The body of a pin request: None (no "pinned" key), or the value given.
STR_true == <<"t", "r", "u", "e">>
STR_false == <<"f", "a", "l", "s", "e">>
PinBodies == {None, STR_true, STR_false}

\* Variant: a request with no body pins.
PinNewState_AlwaysPins(meta, image_id, body) ==
    IF body # None THEN body = STR_true ELSE TRUE

\* Lines 1295-1298.
PinNewState(meta, image_id, body) ==
    IF body # None THEN body = STR_true
    ELSE ~(image_id \in DOMAIN meta.pinned)

\* Variant: the pinned map is built anew with the one image.
PinMeta_DropsOthers(meta, image_id, body) ==
    [meta EXCEPT !.pinned =
        IF PinNewState(meta, image_id, body) THEN Put(EmptyMap, image_id, TRUE)
        ELSE Pop(meta.pinned, image_id)]

PinMeta(meta, image_id, body) ==
    [meta EXCEPT !.pinned =
        IF PinNewState(meta, image_id, body) THEN Put(meta.pinned, image_id, TRUE)
        ELSE Pop(meta.pinned, image_id)]

\* PUT /api/images/<image_id>/pin
pin_image(s, image_id, body) ==
    LET meta == _load_meta IN
    IF _require_admin(s) # <<>> THEN _require_admin(s)[1]
    ELSE IF _find_files_by_id(image_id) = {}
    THEN Result(404, <<"error", "Image not found">>)
    ELSE [Result(200, <<"pinned", image_id, PinNewState(meta, image_id, body)>>)
            EXCEPT !.metaFile = _save_meta(PinMeta(meta, image_id, body))]

DescInputs == {None, <<"h", "i", " ">>, <<" ">>}

\* _save_description: the description files after it.
\* A blank text unlinks the file; any other is written stripped.
_save_description(d, image_id, text) ==
    IF Strip(OrEmpty(text)) = <<>> THEN Pop(d, image_id)
    ELSE Put(d, image_id, Strip(OrEmpty(text)))

\* PUT /api/images/<image_id>/description
image_description_put(s, image_id, text) ==
    LET after == _save_description(desc, image_id, text) IN
    IF _find_files_by_id(image_id) = {}
    THEN Result(404, <<"error", "Image not found">>)
    ELSE IF _require_admin(s) # <<>> THEN _require_admin(s)[1]
    ELSE [Result(200, <<"json", [id |-> image_id,
                                 description |->
                                     IF image_id \in DOMAIN after
                                     THEN after[image_id] ELSE <<>>]>>)
            EXCEPT !.desc = after,
                   !.files = (files \ {<<"txt", image_id>>})
                             \cup (IF image_id \in DOMAIN after
                                   THEN {<<"txt", image_id>>} ELSE {})]

\* Variant: the album assignment is left in place.
DeleteMeta_KeepsAlbum(meta, image_id) ==
    [meta EXCEPT !.pinned = Pop(meta.pinned, image_id)]

\* Lines 1368-1380: the document delete_image saves.
DeleteMeta(meta, image_id) ==
    [meta EXCEPT !.pinned = Pop(meta.pinned, image_id),
                 !.image_album = Pop(meta.image_album, image_id)]

\* DELETE /api/images/<image_id>
delete_image(s, image_id) ==
    LET found == _find_files_by_id(image_id) IN
    IF _require_admin(s) # <<>> THEN _require_admin(s)[1]
    ELSE IF found = {} THEN Result(404, <<"error", "Image not found">>)
    ELSE [Result(200, <<"deleted", found>>) EXCEPT
            !.files = (files \ found)
                      \ {<<"txt", image_id>>, <<"thumb", image_id>>, <<"jpg", image_id>>},
            !.desc = Pop(desc, image_id),
            !.metaFile = _save_meta(DeleteMeta(_load_meta, image_id))]

PathInputs == {<<k, i>> : k \in {"webp", "thumb"}, i \in RequestIds}

MaxBatch == 1

Batches == UNION {[1..n -> FileInputs] : n \in 0..MaxBatch}

Init ==
    /\ metaFile = [state |-> "missing", doc |-> EmptyDoc]
    /\ files = {}
    /\ desc = EmptyMap
    /\ session = [s \in Sessions |-> [is_admin |-> FALSE, unlocked_albums |-> {}]]
    /\ upl = [stage |-> "idle"]
    /\ reqs = [k \in Slots |-> [stage |-> "idle"]]
    /\ tmpFile = [state |-> "absent", doc |-> EmptyDoc]

Next ==
    \/ \E s \in Sessions : \E pw \in LoginInputs(s) : Apply(manage_login(s, pw))
    \/ \E s \in Sessions, pw \in PwInputs : Apply(unlock_album(s, pw))
    \/ \E s \in Sessions : Apply(lock_albums(s))
    \/ \E s \in Sessions, n \in NameInputs, pw \in PwInputs :
          /\ Cardinality(DOMAIN _load_meta.albums) < MaxAlbums
          /\ Apply(admin_albums(s, n, pw))
    \/ \E s \in Sessions, a \in AlbumIds \cup {<<" ", "a">>} :
          Apply(admin_album_delete(s, a))
    \/ \E s \in Sessions, a \in AlbumIds, n \in NameInputs, pw \in PwInputs :
          Apply(admin_album_update(s, a, n, pw))
    \/ \E s \in Sessions, i \in RequestIds, a \in AssignInputs :
          Apply(admin_set_image_album(s, i, a))
    \/ \E s \in Sessions, form \in UploadForms, b \in Batches :
          Apply(upload_image(s, form[1], form[2], b))
    \/ \E s \in Sessions, q \in ListQueries : Apply(get_images(s, q[1], q[2], q[3]))
    \/ \E s \in Sessions, i \in RequestIds : Apply(get_image(s, i))
    \/ \E s \in Sessions, i \in RequestIds : \E src \in Sources(i) :
          Apply(serve_thumbnail(s, i, src))
    \/ \E s \in Sessions, i \in RequestIds, f \in FormatInputs : \E src \in Sources(i) :
          Apply(download_image(s, i, f, src))
    \/ \E s \in Sessions, i \in RequestIds : Apply(image_description_get(s, i))
    \/ \E s \in Sessions, p \in PathInputs : Apply(serve_image(s, p))

Spec == Init /\ [][Next]_vars

\* ------------------------------------------------- an upload in flight
\* The server handles requests in parallel threads: between the steps of an
\* upload (validation against meta_for_upload, the conversion, the metadata
\* update) other requests run.  One upload of one file is in flight at most.
upload_begin(s, public_in, album_in, f) ==
    /\ upl.stage = "idle"
    /\ f.kind = "ok"
    /\ UploadRefusal(s, public_in, album_in, <<f>>) = <<>>
    /\ upl' = [stage |-> "validated", file |-> f,
               upload_album_id |-> _normalize_album_id(album_in)]
    /\ UNCHANGED <<metaFile, files, desc, session, reqs, tmpFile>>

upload_convert ==
    /\ upl.stage = "validated"
    /\ files' = files \cup convert_and_save_image(upl.file)
    /\ upl' = [upl EXCEPT !.stage = "converted"]
    /\ UNCHANGED <<metaFile, desc, session, reqs, tmpFile>>

upload_commit ==
    /\ upl.stage = "converted"
    /\ metaFile' = _save_meta(UploadMeta(_load_meta, upl.file.id, upl.upload_album_id))
    /\ upl' = [stage |-> "idle"]
    /\ UNCHANGED <<files, desc, session, reqs, tmpFile>>

NextRace ==
    \/ \E s \in Sessions : \E pw \in LoginInputs(s) : Apply(manage_login(s, pw))
    \/ \E s \in Sessions, pw \in PwInputs : Apply(unlock_album(s, pw))
    \/ \E s \in Sessions, n \in NameInputs, pw \in PwInputs :
          /\ Cardinality(DOMAIN _load_meta.albums) < MaxAlbums
          /\ Apply(admin_albums(s, n, pw))
    \/ \E s \in Sessions, a \in AlbumIds : Apply(admin_album_delete(s, a))
    \/ \E s \in Sessions, a \in {None, STR_public} :
          Apply(get_images(s, a, NoDate, NoDate))
    \/ \E s \in Sessions, i \in RequestIds : Apply(get_image(s, i))
    \/ \E s \in Sessions, form \in UploadForms, f \in FileInputs :
          upload_begin(s, form[1], form[2], f)
    \/ upload_convert
    \/ upload_commit

SpecRace == Init /\ [][NextRace]_vars

\* ------------------------------------------------- the management page
\* The requests of the management page and what a visitor can reach of them.
NextAdmin ==
    \/ \E s \in Sessions : \E pw \in LoginInputs(s) : Apply(manage_login(s, pw))
    \/ \E s \in Sessions : Apply(unlock_album(s, <<"p">>))
    \/ \E s \in Sessions : Apply(lock_albums(s))
    \/ \E s \in Sessions :
          /\ Cardinality(DOMAIN _load_meta.albums) < MaxAlbums
          /\ Apply(admin_albums(s, <<" ", "A">>, <<"p">>))
    \/ \E s \in Sessions, a \in AlbumIds : Apply(admin_album_delete(s, a))
    \/ \E s \in Sessions, i \in RequestIds, a \in AlbumIds \cup {None} :
          Apply(admin_set_image_album(s, i, a))
    \/ \E s \in Sessions, f \in FileInputs :
          Apply(upload_image(s, <<"O", "n">>, None, <<f>>))
    \/ \E s \in Sessions, i \in RequestIds, b \in PinBodies : Apply(pin_image(s, i, b))
    \/ \E s \in Sessions, i \in RequestIds, d \in DescInputs :
          Apply(image_description_put(s, i, d))
    \/ \E s \in Sessions, i \in RequestIds : Apply(delete_image(s, i))
    \/ \E s \in Sessions, d \in {NoDate, 2} : Apply(admin_get_images(s, d, NoDate))
    \/ \E s \in Sessions, i \in RequestIds : Apply(get_image(s, i))

SpecAdmin == Init /\ [][NextAdmin]_vars

\* ------------------------------------------------- the life of an image
\* Upload, what accumulates around an image (album, pin, description, cached
\* thumbnail and JPEG) and its deletion.
NextDelete ==
    \/ \E s \in Sessions : \E pw \in LoginInputs(s) : Apply(manage_login(s, pw))
    \/ \E s \in Sessions :
          /\ Cardinality(DOMAIN _load_meta.albums) < MaxAlbums
          /\ Apply(admin_albums(s, <<" ", "A">>, <<"p">>))
    \/ \E s \in Sessions, i \in RequestIds, a \in AlbumIds :
          Apply(admin_set_image_album(s, i, a))
    \/ \E s \in Sessions, f \in FileInputs :
          Apply(upload_image(s, <<"O", "n">>, None, <<f>>))
    \/ \E s \in Sessions, i \in RequestIds : Apply(pin_image(s, i, None))
    \/ \E s \in Sessions, i \in RequestIds :
          Apply(image_description_put(s, i, <<"h", "i", " ">>))
    \/ \E s \in Sessions, i \in RequestIds : \E src \in Sources(i) :
          Apply(serve_thumbnail(s, i, src))
    \/ \E s \in Sessions, i \in RequestIds : \E src \in Sources(i) :
          Apply(download_image(s, i, STR_jpg, src))
    \/ \E s \in Sessions, i \in RequestIds : Apply(delete_image(s, i))
    \/ \E s \in Sessions, i \in RequestIds : Apply(get_image(s, i))

SpecDelete == Init /\ [][NextDelete]_vars

\* ------------------------------------------------ the stored document
\* The documents the file can hold: dates of the images that were uploaded
\* (an image that was deleted keeps its date), pins and album assignments of
\* images on disk, albums created under the name "A".
StoredAlbum == [name |-> <<"A">>, password_hash |-> generate_password_hash(<<"p">>)]

InitStore ==
    /\ \E F \in SUBSET ImageIds, DT \in SUBSET ImageIds, P \in SUBSET ImageIds,
          AL \in SUBSET {<<"a">>, <<"a", "-", "2">>} :
          \E dom \in SUBSET F : \E ia \in [dom -> AL] :
              /\ F \subseteq DT
              /\ P \subseteq F
              /\ files = {<<"webp", i>> : i \in F}
              /\ metaFile \in
                    {[state |-> "missing", doc |-> EmptyDoc],
                     [state |-> "ok",
                      doc |-> [pinned |-> [i \in P |-> TRUE],
                               datetime |-> [i \in DT |-> i[1]],
                               albums |-> [a \in AL |-> StoredAlbum],
                               image_album |-> ia]]}
              /\ (metaFile.state = "missing" =>
                    F = {} /\ DT = {} /\ P = {} /\ AL = {})
    /\ desc = EmptyMap
    /\ session = [s \in Sessions |-> [is_admin |-> FALSE, unlocked_albums |-> {}]]
    /\ upl = [stage |-> "idle"]
    /\ reqs = [k \in Slots |-> [stage |-> "idle"]]
    /\ tmpFile = [state |-> "absent", doc |-> EmptyDoc]

\* save(load()) with no other writer.
save_load ==
    /\ metaFile' = _save_meta(_load_meta)
    /\ UNCHANGED <<files, desc, session, upl, reqs, tmpFile>>

NextStore ==
    \/ \E s \in Sessions : \E pw \in LoginInputs(s) : Apply(manage_login(s, pw))
    \/ \E s \in Sessions, i \in RequestIds : Apply(pin_image(s, i, None))
    \/ save_load

SpecStore == InitStore /\ [][NextStore]_vars

\* ------------------------------------------- pin requests side by side
\* The server runs each request in its own thread and nothing locks the
\* metadata file.  A pin request loads the document (lines 1279-1305) and
\* _save_meta then opens .meta.json.tmp for writing, which creates or
\* truncates it, writes the text at the start of the file it holds open and
\* closes it (line 284), and renames it onto .meta.json (line 285).  Every
\* save uses the same temporary path, so two savers may hold the same file.
Idle == \A k \in Slots : reqs[k].stage = "idle"

\* The length of the text json.dumps gives for a document: ids have one
\* length and so have the values of a map, so it grows with the entries.
Size(doc) ==
    Cardinality(DOMAIN doc.pinned) + Cardinality(DOMAIN doc.datetime)
        + Cardinality(DOMAIN doc.albums) + Cardinality(DOMAIN doc.image_album)

\* A file after text d is written at its start: what was longer keeps its
\* tail.  A torn file records in doc the document whose tail it ends with.
Overlay(cur, d) ==
    IF cur.state \in {"empty", "absent", "missing"} THEN [state |-> "ok", doc |-> d]
    ELSE IF Size(d) >= Size(cur.doc) THEN [state |-> "ok", doc |-> d]
    ELSE [state |-> "torn", doc |-> cur.doc]

\* Lines 1279-1305 of one request: the guards, the load, the new document.
pin_load(k, s, image_id) ==
    /\ reqs[k].stage = "idle"
    /\ _require_admin(s) = <<>>
    /\ _find_files_by_id(image_id) # {}
    /\ reqs' = [reqs EXCEPT ![k] =
            [stage |-> "loaded", image |-> image_id, base |-> _load_meta,
             doc |-> PinMeta(_load_meta, image_id, None), at |-> "none"]]
    /\ UNCHANGED <<metaFile, files, desc, session, upl, tmpFile>>

\* Line 284, the open: the temporary file is created, or truncated if it is
\* there.
save_open(k) ==
    /\ reqs[k].stage = "loaded"
    /\ tmpFile' = [state |-> "empty", doc |-> EmptyDoc]
    /\ reqs' = [reqs EXCEPT ![k].stage = "opened", ![k].at = "tmp"]
    /\ UNCHANGED <<metaFile, files, desc, session, upl>>

\* Line 284, the write and the close: the text goes to the file the request
\* holds open, wherever that file is by now.
save_write(k) ==
    /\ reqs[k].stage = "opened"
    /\ tmpFile' = IF reqs[k].at = "tmp" THEN Overlay(tmpFile, reqs[k].doc) ELSE tmpFile
    /\ metaFile' = IF reqs[k].at = "meta" THEN Overlay(metaFile, reqs[k].doc) ELSE metaFile
    /\ reqs' = [reqs EXCEPT ![k].stage = "written", ![k].at = "none"]
    /\ UNCHANGED <<files, desc, session, upl>>

\* Line 285: the rename.  With no temporary file it raises and the request
\* answers 500; else .meta.json becomes the temporary file, and so does the
\* file of whoever still holds it open.
save_replace(k) ==
    /\ reqs[k].stage = "written"
    /\ IF tmpFile.state = "absent"
       THEN /\ reqs' = [reqs EXCEPT ![k].stage = "failed"]
            /\ UNCHANGED <<metaFile, tmpFile>>
       ELSE /\ metaFile' = tmpFile
            /\ tmpFile' = [state |-> "absent", doc |-> EmptyDoc]
            /\ reqs' = [j \in Slots |->
                    IF j = k THEN [reqs[j] EXCEPT !.stage = "done"]
                    ELSE IF reqs[j].stage = "opened"
                    THEN [reqs[j] EXCEPT !.at =
                            IF @ = "tmp" THEN "meta" ELSE "gone"]
                    ELSE reqs[j]]
    /\ UNCHANGED <<files, desc, session, upl>>

\* Line 1308, or the 500 of the error handler: the response is sent.
pin_respond(k) ==
    /\ reqs[k].stage \in {"done", "failed"}
    /\ reqs' = [reqs EXCEPT ![k] = [stage |-> "idle"]]
    /\ UNCHANGED <<metaFile, files, desc, session, upl, tmpFile>>

NextConc ==
    \/ \E s \in Sessions : \E pw \in LoginInputs(s) :
          Idle /\ Apply(manage_login(s, pw))
    \/ \E s \in Sessions, f \in FileInputs :
          Idle /\ Apply(upload_image(s, <<"O", "n">>, None, <<f>>))
    \/ \E s \in Sessions : Apply(get_images(s, None, NoDate, NoDate))
    \/ \E k \in Slots, s \in Sessions, i \in ImageIds : pin_load(k, s, i)
    \/ \E k \in Slots : save_open(k)
    \/ \E k \in Slots : save_write(k)
    \/ \E k \in Slots : save_replace(k)
    \/ \E k \in Slots : pin_respond(k)

SpecConc == Init /\ [][NextConc]_vars

\* ------------------------------------------- the making of a thumbnail
\* _ensure_thumbnail as the steps it takes: the check of the path and the
\* opening of the source (lines 377-392), one encode attempt per turn of the
\* loop (lines 397-422), and the write of the accepted attempt, which
\* write_bytes does at the final path: the file is created or truncated there
\* (it exists, incomplete) and is then filled.
THUMB_MAX_BYTES == 30 * 1024

\* What an encode attempt may weigh: at the budget and one byte above it.
ThumbSizes == {THUMB_MAX_BYTES, THUMB_MAX_BYTES + 1}

\* Variant: the dimension is lowered first, the quality at the smallest
\* dimension only.
ThumbStep_DimensionFirst(r, size) ==
    LET r1 == [r EXCEPT !.attempts = @ + 1, !.size = size] IN
    IF size <= THUMB_MAX_BYTES
    THEN [r1 EXCEPT !.stage = "writing", !.writes = @ + 1]
    ELSE IF r.max_side > 240
    THEN [r1 EXCEPT !.max_side = IF (@ * 85) \div 100 > 240 THEN (@ * 85) \div 100 ELSE 240]
    ELSE IF r.quality > 40 THEN [r1 EXCEPT !.quality = @ - 8]
    ELSE [r1 EXCEPT !.stage = "writing", !.writes = @ + 1]

\* Variant: the quality is lowered by 4 at a time.
ThumbStep_SmallQualitySteps(r, size) ==
    LET r1 == [r EXCEPT !.attempts = @ + 1, !.size = size] IN
    IF size <= THUMB_MAX_BYTES
    THEN [r1 EXCEPT !.stage = "writing", !.writes = @ + 1]
    ELSE IF r.quality > 40 THEN [r1 EXCEPT !.quality = @ - 4]
    ELSE IF r.max_side <= 240
    THEN [r1 EXCEPT !.stage = "writing", !.writes = @ + 1]
    ELSE [r1 EXCEPT !.max_side = IF (@ * 85) \div 100 > 240 THEN (@ * 85) \div 100 ELSE 240,
                    !.quality = 76]

\* Variant: at the smallest dimension the attempt is written whatever the
\* quality.
ThumbStep_FloorOnDimensionOnly(r, size) ==
    LET r1 == [r EXCEPT !.attempts = @ + 1, !.size = size] IN
    IF size <= THUMB_MAX_BYTES \/ r.max_side <= 240
    THEN [r1 EXCEPT !.stage = "writing", !.writes = @ + 1]
    ELSE IF r.quality > 40 THEN [r1 EXCEPT !.quality = @ - 8]
    ELSE [r1 EXCEPT !.max_side = IF (@ * 85) \div 100 > 240 THEN (@ * 85) \div 100 ELSE 240,
                    !.quality = 76]

\* One turn of the loop (lines 398-422): the attempt at (max_side, quality)
\* weighs size.
ThumbStep(r, size) ==
    LET r1 == [r EXCEPT !.attempts = @ + 1, !.size = size] IN
    IF size <= THUMB_MAX_BYTES
    THEN [r1 EXCEPT !.stage = "writing", !.writes = @ + 1]
    ELSE IF r.quality > 40 THEN [r1 EXCEPT !.quality = @ - 8]
    ELSE IF r.max_side <= 240
    THEN [r1 EXCEPT !.stage = "writing", !.writes = @ + 1]
    ELSE [r1 EXCEPT !.max_side = IF (@ * 85) \div 100 > 240 THEN (@ * 85) \div 100 ELSE 240,
                    !.quality = 76]

\* The request passes the guards of serve_thumbnail, finds no thumbnail and
\* opens the source.
thumb_begin(k, s, image_id) ==
    /\ reqs[k].stage = "idle"
    /\ _require_image_access_or_404(s, image_id) = <<>>
    /\ _find_files_by_id(image_id) # {}
    /\ <<"thumb", image_id>> \notin files
    /\ \E src \in _pick_source_file(image_id) : Decodable(src)
    /\ reqs' = [reqs EXCEPT ![k] =
            [stage |-> "search", image |-> image_id, max_side |-> 640,
             quality |-> 76, attempts |-> 0, size |-> 0, writes |-> 0]]
    /\ UNCHANGED <<metaFile, files, desc, session, upl, tmpFile>>

\* An encode attempt; the accepted one is handed to write_bytes, which
\* creates the file at the final path.
thumb_encode(k, size) ==
    /\ reqs[k].stage = "search"
    /\ reqs' = [reqs EXCEPT ![k] = ThumbStep(reqs[k], size)]
    /\ files' = IF ThumbStep(reqs[k], size).stage = "writing"
                THEN files \cup {<<"thumb", reqs[k].image>>} ELSE files
    /\ UNCHANGED <<metaFile, desc, session, upl, tmpFile>>

\* write_bytes fills the file and closes it.
thumb_write(k) ==
    /\ reqs[k].stage = "writing"
    /\ reqs' = [reqs EXCEPT ![k].stage = "written"]
    /\ UNCHANGED <<metaFile, files, desc, session, upl, tmpFile>>

\* send_from_directory of the thumbnail.
thumb_respond(k) ==
    /\ reqs[k].stage = "written"
    /\ reqs' = [reqs EXCEPT ![k] = [stage |-> "idle"]]
    /\ UNCHANGED <<metaFile, files, desc, session, upl, tmpFile>>

\* The thumbnails some request has created and not yet filled.
Incomplete == {<<"thumb", reqs[k].image>> : k \in {j \in Slots : reqs[j].stage = "writing"}}

NextThumb ==
    \/ \E pw \in LoginInputs("s1") : Apply(manage_login("s1", pw))
    \/ \E s \in Sessions :
          Apply(upload_image(s, <<"O", "n">>, None, <<UploadFile("ok", <<1, 1>>, TRUE)>>))
    \/ \E k \in Slots, s \in Sessions, i \in RequestIds : thumb_begin(k, s, i)
    \/ \E k \in Slots, size \in ThumbSizes : thumb_encode(k, size)
    \/ \E k \in Slots : thumb_write(k)
    \/ \E k \in Slots : thumb_respond(k)
    \/ \E s \in Sessions, i \in RequestIds : \E src \in Sources(i) :
          /\ <<"thumb", i>> \in files
          /\ Apply(serve_thumbnail(s, i, src))

SpecThumb == Init /\ [][NextThumb]_vars

\* Every request that is searching gets its next attempt, and every write
\* is finished.
FairThumb ==
    SpecThumb /\ \A k \in Slots :
        /\ WF_vars(\E size \in ThumbSizes : thumb_encode(k, size))
        /\ WF_vars(thumb_write(k))

\* ------------------------------------------------ the files of an upload
\* Lines 924-936: photo_date is the EXIF date, or the time of the upload when
\* the file has none (NoDate), and base_name is photo_date to the second
\* followed by the first 12 hex digits of the MD5 of the bytes.
\* Variant: the id carries the time of the upload.
ImageId_UsesUploadTime(exif_dt, upload_dt, file_hash) == <<upload_dt, file_hash>>

ImageId(exif_dt, upload_dt, file_hash) ==
    LET photo_date == IF exif_dt # NoDate THEN exif_dt ELSE upload_dt
    IN  <<photo_date, file_hash>>

MAX_OUTPUT_SIZE == 1024 * 1024

\* Variant: an attempt at quality 55 or lower is written whatever it weighs.
ConvertStep_FloorAt55(u, size) ==
    IF size <= MAX_OUTPUT_SIZE \/ u.quality <= 55
    THEN IF u.stage = "webp"
         THEN [u EXCEPT !.webp = <<u.quality, size>>, !.quality = 80,
                        !.stage = IF u.file.avif THEN "avif" ELSE "converted"]
         ELSE [u EXCEPT !.avif = <<u.quality, size>>, !.stage = "converted"]
    ELSE [u EXCEPT !.quality = @ - 5]

\* One encode attempt of convert_and_save_image (lines 833-842 for the WebP,
\* from quality 70; lines 845-854 for the AVIF, from quality 80): the attempt
\* is written when it is within MAX_OUTPUT_SIZE or the quality is down to
\* 50, and the quality is lowered by 5 otherwise.
ConvertStep(u, size) ==
    IF size <= MAX_OUTPUT_SIZE \/ u.quality <= 50
    THEN IF u.stage = "webp"
         THEN [u EXCEPT !.webp = <<u.quality, size>>, !.quality = 80,
                        !.stage = IF u.file.avif THEN "avif" ELSE "converted"]
         ELSE [u EXCEPT !.avif = <<u.quality, size>>, !.stage = "converted"]
    ELSE [u EXCEPT !.quality = @ - 5]

\* An upload of one file as steps: the request is accepted and the id of the
\* file worked out,
convert_begin(s, exif_dt, upload_dt) ==
    LET f == UploadFile("ok", ImageId(exif_dt, upload_dt, 1), TRUE) IN
    /\ upl.stage = "idle"
    /\ UploadRefusal(s, <<"O", "n">>, None, <<f>>) = <<>>
    /\ upl' = [stage |-> "webp", file |-> f, upload_album_id |-> None,
               quality |-> 70, webp |-> <<>>, avif |-> <<>>]
    /\ UNCHANGED <<metaFile, files, desc, session, reqs, tmpFile>>

\* then one encode attempt at a time, the one that is accepted being written,
\* and at the end the metadata update (upload_commit).
convert_encode(size) ==
    /\ upl.stage \in {"webp", "avif"}
    /\ upl' = ConvertStep(upl, size)
    /\ files' = files
          \cup (IF ConvertStep(upl, size).webp # <<>> THEN {<<"webp", upl.file.id>>} ELSE {})
          \cup (IF ConvertStep(upl, size).avif # <<>> THEN {<<"avif", upl.file.id>>} ELSE {})
    /\ UNCHANGED <<metaFile, desc, session, reqs, tmpFile>>

\* The files of a batch: two images, and one file for each way of being
\* turned down; the file the decoder fails on has the id of the second image.
BatchFiles ==
    {UploadFile("ok", ImageId(e, 2, 1), TRUE) : e \in {NoDate, 1}}
        \cup {UploadFile(k, GhostId, FALSE) : k \in {"empty", "badext", "raw", "toolarge"}}
        \cup {UploadFile("corrupt", ImageId(2, 1, 1), TRUE)}

MaxFiles == 2

UploadBatches == UNION {[1..n -> BatchFiles] : n \in 0..MaxFiles}

NextUpload ==
    \/ \E s \in Sessions : \E pw \in LoginInputs(s) : Apply(manage_login(s, pw))
    \/ \E s \in Sessions, b \in UploadBatches :
          Apply(upload_image(s, <<"O", "n">>, None, b))
    \/ \E s \in Sessions, e \in {NoDate, 1, 2}, n \in {1, 2} : convert_begin(s, e, n)
    \/ \E size \in {MAX_OUTPUT_SIZE, MAX_OUTPUT_SIZE + 1} : convert_encode(size)
    \/ upload_commit

SpecUpload == Init /\ [][NextUpload]_vars

\* ------------------------------------------------------ the listings
\* Four images, two for each of two dates, uploaded, pinned and deleted in
\* any order, and the two listings.
NextList ==
    \/ \E s \in Sessions : \E pw \in LoginInputs(s) : Apply(manage_login(s, pw))
    \/ \E s \in Sessions, e \in {1, 2}, h \in {1, 2} :
          Apply(upload_image(s, <<"O", "n">>, None,
                             <<UploadFile("ok", ImageId(e, 2, h), TRUE)>>))
    \/ \E s \in Sessions, e \in {1, 2}, h \in {1, 2} :
          Apply(pin_image(s, ImageId(e, 2, h), None))
    \/ \E s \in Sessions, e \in {1, 2}, h \in {1, 2} :
          Apply(delete_image(s, ImageId(e, 2, h)))
    \/ \E s \in Sessions : Apply(get_images(s, None, NoDate, NoDate))
    \/ \E s \in Sessions : Apply(admin_get_images(s, NoDate, NoDate))

SpecList == Init /\ [][NextList]_vars

\* ------------------------------------------- albums and their images
\* The requests that write albums or album assignments, and those that
\* remove images or write other fields of the document, one at a time.
NextAlbums ==
    \/ \E s \in Sessions : \E pw \in LoginInputs(s) : Apply(manage_login(s, pw))
    \/ \E s \in Sessions, pw \in {<<"p">>, <<"q">>} :
          /\ Cardinality(DOMAIN _load_meta.albums) < MaxAlbums
          /\ Apply(admin_albums(s, <<" ", "A">>, pw))
    \/ \E s \in Sessions, a \in AlbumIds, n \in {None, <<"B">>}, pw \in {None, <<"q">>} :
          Apply(admin_album_update(s, a, n, pw))
    \/ \E s \in Sessions, a \in AlbumIds : Apply(admin_album_delete(s, a))
    \/ \E s \in Sessions, i \in RequestIds, a \in AssignInputs :
          Apply(admin_set_image_album(s, i, a))
    \/ \E s \in Sessions, form \in UploadForms, f \in FileInputs :
          Apply(upload_image(s, form[1], form[2], <<f>>))
    \/ \E s \in Sessions, i \in RequestIds : Apply(pin_image(s, i, None))
    \/ \E s \in Sessions, i \in RequestIds : Apply(delete_image(s, i))

SpecAlbums == Init /\ [][NextAlbums]_vars

\* ------------------------------------- deletion next to generation
\* The thumbnail requests in steps, and deletions of the image between
\* their steps.  The source is read when the request opens it, so the search
\* goes on after the files are unlinked.
NextReap ==
    \/ NextThumb
    \/ \E s \in Sessions, i \in RequestIds : Apply(delete_image(s, i))

SpecReap == Init /\ [][NextReap]_vars

\* =============================================================== claims
\* The requests of a claim are the handler operators applied to the state at
\* hand; a claim that holds in every reachable state for every input holds for
\* every request the server can receive.

\* C1: for a caller who is not admin, _can_access_image(image_id) is true
\* if and only if the image's resolved album (its image_album entry, when that
\* id is a key of albums) is absent or is in that caller's unlocked set.
C1_GateIffUnlocked ==
    \A s \in Sessions, i \in RequestIds :
        LET doc == IF metaFile.state = "ok" THEN metaFile.doc ELSE EmptyDoc
            live == /\ i \in DOMAIN doc.image_album
                    /\ doc.image_album[i] \in DOMAIN doc.albums
        IN  ~session[s].is_admin =>
                (_can_access_image(s, i) <=>
                    (~live \/ doc.image_album[i] \in session[s].unlocked_albums))

\* A visitor has unlocked the album of one image and not that of another.
C1_Witness ==
    \E s \in Sessions, i \in ImageIds, j \in ImageIds :
        /\ ~session[s].is_admin
        /\ i \in ImageGroups /\ j \in ImageGroups
        /\ i \in DOMAIN metaFile.doc.image_album
        /\ j \in DOMAIN metaFile.doc.image_album
        /\ metaFile.doc.image_album[i] \in DOMAIN metaFile.doc.albums
        /\ metaFile.doc.image_album[j] \in DOMAIN metaFile.doc.albums
        /\ metaFile.doc.image_album[i] \in session[s].unlocked_albums
        /\ metaFile.doc.image_album[j] \notin session[s].unlocked_albums
        /\ _can_access_image(s, i)
        /\ ~_can_access_image(s, j)

\* C2: single-image fetch, thumbnail, download, description read and file
\* fetch answer a caller who is not admin, for an existing image of a private
\* album the caller has not unlocked, with the status and body they give for
\* an image id that does not exist.
C2_DeniedLooksMissing ==
    \A s \in Sessions, i \in RequestIds, j \in RequestIds :
        LET doc == _load_meta
            locked == /\ ~session[s].is_admin
                      /\ \E f \in files : f[2] = i
                      /\ i \in DOMAIN doc.image_album
                      /\ doc.image_album[i] \in DOMAIN doc.albums
                      /\ doc.image_album[i] \notin session[s].unlocked_albums
            missing == \A f \in files : f[2] # j
            Same(r, q) == r.status = q.status /\ r.body = q.body
        IN  (locked /\ missing) =>
                /\ Same(get_image(s, i), get_image(s, j))
                /\ Same(image_description_get(s, i), image_description_get(s, j))
                /\ \A si \in Sources(i), sj \in Sources(j) :
                      /\ Same(serve_thumbnail(s, i, si), serve_thumbnail(s, j, sj))
                      /\ \A fmt \in FormatInputs \cup {STR_jpg} :
                            Same(download_image(s, i, fmt, si),
                                 download_image(s, j, fmt, sj))
                /\ \A f \in files, k \in Kinds :
                      f[2] = i => Same(serve_image(s, f), serve_image(s, <<k, j>>))

\* A visitor is refused an image that is on disk, thumbnail included, in an
\* album still locked to them.
C2_Witness ==
    \E s \in Sessions, i \in ImageIds :
        /\ ~session[s].is_admin
        /\ <<"webp", i>> \in files /\ <<"thumb", i>> \in files
        /\ i \in DOMAIN metaFile.doc.image_album
        /\ metaFile.doc.image_album[i] \in DOMAIN metaFile.doc.albums
        /\ metaFile.doc.image_album[i] \notin session[s].unlocked_albums
        /\ get_image(s, i).status = 404
        /\ serve_image(s, <<"thumb", i>>).status = 404

\* C3: for every caller the listing with album="public" holds no image whose
\* image_album entry names an album id that is a key of albums.
C3_PublicListingHasNoAlbumImage ==
    \A s \in Sessions, d1 \in {NoDate, 1, 2}, d2 \in {NoDate, 1, 2} :
        LET r == get_images(s, STR_public, d1, d2)
            doc == _load_meta
        IN  /\ r.status = 200
            /\ \A k \in 1..Len(r.body[2]) :
                  ~(/\ r.body[2][k].id \in DOMAIN doc.image_album
                    /\ doc.image_album[r.body[2][k].id] \in DOMAIN doc.albums)

\* One image is in a live album, another in none; a session that has the
\* album unlocked is listed the second one only.
C3_Witness ==
    \E s \in Sessions, i \in ImageIds, j \in ImageIds :
        /\ i \in ImageGroups /\ j \in ImageGroups
        /\ i \in DOMAIN metaFile.doc.image_album
        /\ metaFile.doc.image_album[i] \in DOMAIN metaFile.doc.albums
        /\ metaFile.doc.image_album[i] \in session[s].unlocked_albums
        /\ j \notin DOMAIN metaFile.doc.image_album
        /\ Len(get_images(s, STR_public, NoDate, NoDate).body[2]) = 1
        /\ get_images(s, STR_public, NoDate, NoDate).body[2][1].id = j

\* C4: an image whose image_album entry names an album id that is no key
\* of albums is listed, under album="public" and under no filter, to every
\* caller with album_id none, and _can_access_image grants it to every caller;
\* the list path and the gate resolve the same album for every image.
C4_OrphanIsPublic ==
    LET doc == _load_meta
        orphan(i) == /\ i \in DOMAIN doc.image_album
                     /\ doc.image_album[i] \notin DOMAIN doc.albums
        Listed(r, i) == /\ r.status = 200
                        /\ \E k \in 1..Len(r.body[2]) :
                              /\ r.body[2][k].id = i
                              /\ r.body[2][k].album_id = None
                              /\ r.body[2][k].album_name = None
    IN  /\ \A i \in RequestIds : \A s \in Sessions :
              orphan(i) =>
                  /\ _can_access_image(s, i)
                  /\ i \in ImageGroups =>
                        /\ Listed(get_images(s, STR_public, NoDate, NoDate), i)
                        /\ Listed(get_images(s, None, NoDate, NoDate), i)
        /\ \A i \in RequestIds : ListAlbumId(doc, i) = _get_image_album_id(i)

\* An upload committed its album after the album had been deleted: the image
\* is on disk, its entry names no album, a visitor with nothing unlocked is
\* listed it.
C4_Witness ==
    \E s \in Sessions, i \in ImageIds :
        /\ ~session[s].is_admin /\ session[s].unlocked_albums = {}
        /\ i \in ImageGroups
        /\ i \in DOMAIN metaFile.doc.image_album
        /\ metaFile.doc.image_album[i] \notin DOMAIN metaFile.doc.albums
        /\ metaFile.doc.albums # EmptyMap
        /\ \E k \in 1..Len(get_images(s, None, NoDate, NoDate).body[2]) :
              get_images(s, None, NoDate, NoDate).body[2][k].id = i

\* C5: GET /api/images answers two callers that differ only in the admin
\* flag with the same status and the same images in the same order, whatever
\* the album filter and the unlocked set; an admin session whose unlocked set
\* is empty is listed no image of a live album.
C5_ListingIgnoresAdmin ==
    LET doc == _load_meta
        InLiveAlbum(i) == /\ i \in DOMAIN doc.image_album
                          /\ doc.image_album[i] \in DOMAIN doc.albums
    IN  \A q \in ListQueries :
          /\ \A s \in Sessions, t \in Sessions :
                (/\ session[s].is_admin /\ ~session[t].is_admin
                 /\ session[s].unlocked_albums = session[t].unlocked_albums)
                => LET r == get_images(s, q[1], q[2], q[3])
                       u == get_images(t, q[1], q[2], q[3])
                   IN  r.status = u.status /\ r.body = u.body
          /\ \A s \in Sessions :
                (session[s].is_admin /\ session[s].unlocked_albums = {})
                => LET r == get_images(s, q[1], q[2], q[3])
                   IN  r.status = 200 =>
                          \A k \in 1..Len(r.body[2]) : ~InLiveAlbum(r.body[2][k].id)

\* The admin session and a visitor have unlocked the same album, another
\* album is locked to both and holds an image on disk.
C5_Witness ==
    \E s \in Sessions, t \in Sessions, i \in ImageIds :
        /\ session[s].is_admin /\ ~session[t].is_admin
        /\ session[s].unlocked_albums = session[t].unlocked_albums
        /\ session[s].unlocked_albums # {}
        /\ i \in ImageGroups
        /\ i \in DOMAIN metaFile.doc.image_album
        /\ metaFile.doc.image_album[i] \in DOMAIN metaFile.doc.albums
        /\ metaFile.doc.image_album[i] \notin session[s].unlocked_albums
        /\ get_images(s, metaFile.doc.image_album[i], NoDate, NoDate).status = 403
        /\ get_images(s, None, NoDate, NoDate).body[2] = <<>>

\* C6 as the claim states it: the listing with album="all" gives an admin
\* caller every image on disk whatever its album, and refuses a caller who is
\* not admin.
C6_AllIsAdminOnly ==
    \A s \in Sessions :
        LET r == get_images(s, STR_all, NoDate, NoDate) IN
        IF session[s].is_admin
        THEN /\ r.status = 200
             /\ {r.body[2][k].id : k \in 1..Len(r.body[2])} = ImageGroups
        ELSE r.status # 200

\* C6, amended: the listing with album="all" is refused to no caller and
\* answers every caller, admin or not, exactly as the listing with no album
\* filter does: the images of no album and of the albums the session has
\* unlocked.
C6_AllIsNoFilter ==
    \A s \in Sessions, d1 \in {NoDate, 1, 2, BadDate}, d2 \in {NoDate, 1, 2} :
        LET r == get_images(s, STR_all, d1, d2)
            u == get_images(s, None, d1, d2)
            doc == _load_meta
        IN  /\ r.status = u.status /\ r.body = u.body
            /\ r.status # 403
            /\ r.status = 200 =>
                  \A k \in 1..Len(r.body[2]) :
                      LET i == r.body[2][k].id IN
                      (i \in DOMAIN doc.image_album /\ doc.image_album[i] \in DOMAIN doc.albums)
                          => doc.image_album[i] \in session[s].unlocked_albums

\* The admin session asks for album="all" and is not listed an image on disk
\* whose album it has not unlocked; a visitor asking the same is answered 200.
C6_Witness ==
    \E s \in Sessions, t \in Sessions, i \in ImageIds :
        /\ session[s].is_admin /\ ~session[t].is_admin
        /\ i \in ImageGroups
        /\ i \in DOMAIN metaFile.doc.image_album
        /\ metaFile.doc.image_album[i] \in DOMAIN metaFile.doc.albums
        /\ metaFile.doc.image_album[i] \notin session[s].unlocked_albums
        /\ get_images(s, STR_all, NoDate, NoDate).status = 200
        /\ \A k \in 1..Len(get_images(s, STR_all, NoDate, NoDate).body[2]) :
              get_images(s, STR_all, NoDate, NoDate).body[2][k].id # i
        /\ get_images(t, STR_all, NoDate, NoDate).status = 200
        /\ get_images(t, STR_all, NoDate, NoDate).body[2] # <<>>

\* C7: the listing with a specific album id X as filter answers 403
\* forbidden with no image when X is not in the caller's unlocked set, admin
\* or not, and otherwise lists exactly the images whose resolved album is X.
C7_SpecificAlbumFailsClosed ==
    \A s \in Sessions, x \in AlbumIds \cup {<<"z">>, STR_none} :
        LET r == get_images(s, x, NoDate, NoDate)
            doc == _load_meta
            InX == {i \in ImageGroups :
                       /\ i \in DOMAIN doc.image_album
                       /\ doc.image_album[i] \in DOMAIN doc.albums
                       /\ doc.image_album[i] = x}
        IN  IF x \notin session[s].unlocked_albums
            THEN r.status = 403 /\ r.body = <<"error", "forbidden">>
            ELSE /\ r.status = 200
                 /\ {r.body[2][k].id : k \in 1..Len(r.body[2])} = InX
                 /\ Len(r.body[2]) = Cardinality(InX)

\* The admin session is refused an album it has not unlocked while a visitor
\* who unlocked it is listed its image and not the image of no album.
C7_Witness ==
    \E s \in Sessions, t \in Sessions, i \in ImageIds, j \in ImageIds, x \in AlbumIds :
        /\ session[s].is_admin /\ x \notin session[s].unlocked_albums
        /\ ~session[t].is_admin /\ x \in session[t].unlocked_albums
        /\ {i, j} \subseteq ImageGroups
        /\ x \in DOMAIN metaFile.doc.albums
        /\ i \in DOMAIN metaFile.doc.image_album /\ metaFile.doc.image_album[i] = x
        /\ j \notin DOMAIN metaFile.doc.image_album
        /\ get_images(s, x, NoDate, NoDate).status = 403
        /\ Len(get_images(t, x, NoDate, NoDate).body[2]) = 1
        /\ get_images(t, x, NoDate, NoDate).body[2][1].id = i

\* C8: the listing with no album filter returns exactly the images on disk
\* whose resolved album is none or is in the caller's unlocked set.
C8_NoFilterListsPublicAndUnlocked ==
    \A s \in Sessions :
        LET r == get_images(s, None, NoDate, NoDate)
            doc == _load_meta
            Visible == {i \in {f[2] : f \in {g \in files : g[1] \in {"webp", "avif"}}} :
                           \/ i \notin DOMAIN doc.image_album
                           \/ doc.image_album[i] \notin DOMAIN doc.albums
                           \/ doc.image_album[i] \in session[s].unlocked_albums}
        IN  /\ r.status = 200
            /\ {r.body[2][k].id : k \in 1..Len(r.body[2])} = Visible
            /\ Len(r.body[2]) = Cardinality(Visible)

\* A visitor has unlocked the album of an image on disk and is listed it;
\* another visitor or the admin, who has not, is not.
C8_Witness ==
    \E s \in Sessions, t \in Sessions, i \in ImageIds :
        /\ ~session[s].is_admin
        /\ i \in ImageGroups
        /\ i \in DOMAIN metaFile.doc.image_album
        /\ metaFile.doc.image_album[i] \in DOMAIN metaFile.doc.albums
        /\ metaFile.doc.image_album[i] \in session[s].unlocked_albums
        /\ metaFile.doc.image_album[i] \notin session[t].unlocked_albums
        /\ \E k \in 1..Len(get_images(s, None, NoDate, NoDate).body[2]) :
              get_images(s, None, NoDate, NoDate).body[2][k].id = i
        /\ \A k \in 1..Len(get_images(t, None, NoDate, NoDate).body[2]) :
              get_images(t, None, NoDate, NoDate).body[2][k].id # i

\* C9: an unlock that succeeds sets the session's unlocked set to what it
\* was united with the ids of every album whose password hash matches the
\* password; albums that share the password are all unlocked by the one call.
C9_UnlockAddsEveryMatch ==
    \A s \in Sessions, pw \in PwInputs :
        LET r == unlock_album(s, pw)
            doc == IF metaFile.state = "ok" THEN metaFile.doc ELSE EmptyDoc
            matching == {a \in DOMAIN doc.albums :
                            doc.albums[a].password_hash = <<"pbkdf2", Strip(pw)>>}
        IN  r.status = 200 =>
                /\ r.session[s].unlocked_albums =
                      session[s].unlocked_albums \cup matching
                /\ r.body = <<"unlocked", matching>>
                /\ \A t \in Sessions \ {s} : r.session[t] = session[t]
                /\ r.session[s].is_admin = session[s].is_admin

\* Two albums share a password; a visitor who holds one stale album id and
\* neither of the two unlocks both with one call.
C9_Witness ==
    \E s \in Sessions, a \in AlbumIds, b \in AlbumIds, pw \in PwInputs :
        /\ a # b
        /\ {a, b} \subseteq DOMAIN metaFile.doc.albums
        /\ metaFile.doc.albums[a].password_hash = metaFile.doc.albums[b].password_hash
        /\ ~session[s].is_admin
        /\ session[s].unlocked_albums \cap {a, b} = {}
        /\ unlock_album(s, pw).status = 200
        /\ unlock_album(s, pw).session[s].unlocked_albums
              = session[s].unlocked_albums \cup {a, b}

C11_LockClearsSession ==
    [][\A s \in Sessions :
          Apply(lock_albums(s)) =>
              /\ lock_albums(s).status = 200
              /\ session'[s].unlocked_albums = {}
              /\ session'[s].is_admin = session[s].is_admin
              /\ \A t \in Sessions \ {s} : session'[t] = session[t]
              /\ metaFile' = metaFile /\ files' = files /\ desc' = desc
              /\ ~session'[s].is_admin =>
                    \A i \in RequestIds :
                        (/\ metaFile'.state = "ok"
                         /\ i \in DOMAIN metaFile'.doc.image_album
                         /\ metaFile'.doc.image_album[i] \in DOMAIN metaFile'.doc.albums)
                        => /\ ~(_can_access_image(s, i))'
                           /\ (get_image(s, i).status)' = 404]_vars

\* A visitor has just locked: nothing is unlocked, an image on disk is in a
\* live album and refused, while the other session still has that album
\* unlocked.
C11_Witness ==
    \E s \in Sessions, t \in Sessions, i \in ImageIds :
        /\ ~session[s].is_admin
        /\ session[s].unlocked_albums = {}
        /\ lock_albums(s).session = session
        /\ i \in ImageGroups
        /\ i \in DOMAIN metaFile.doc.image_album
        /\ metaFile.doc.image_album[i] \in DOMAIN metaFile.doc.albums
        /\ metaFile.doc.image_album[i] \in session[t].unlocked_albums
        /\ ~_can_access_image(s, i)

\* C12: for an admin caller _can_access_image is true of every existing
\* image whatever its album and whatever the session has unlocked, and the
\* admin listing returns every image on disk, those of albums never unlocked
\* included; a caller who is not admin is refused the admin listing.
C12_AdminSeesEverything ==
    \A s \in Sessions :
        LET r == admin_get_images(s, NoDate, NoDate)
            OnDisk == {f[2] : f \in {g \in files : g[1] \in {"webp", "avif"}}}
        IN  IF session[s].is_admin
            THEN /\ \A i \in RequestIds :
                       (\E f \in files : f[2] = i) =>
                           /\ _can_access_image(s, i)
                           /\ get_image(s, i).status = 200
                 /\ r.status = 200
                 /\ {r.body[2][k].id : k \in 1..Len(r.body[2])} = OnDisk
                 /\ Len(r.body[2]) = Cardinality(OnDisk)
            ELSE /\ r.status = 401
                 /\ r.body = <<"error", "Unauthorized">>

\* The admin session has nothing unlocked, an image on disk is in a live
\* album, the admin listing holds it and the public listing does not; a
\* visitor is refused the admin listing.
C12_Witness ==
    \E s \in Sessions, t \in Sessions, i \in ImageIds :
        /\ session[s].is_admin /\ session[s].unlocked_albums = {}
        /\ ~session[t].is_admin
        /\ i \in ImageGroups
        /\ i \in DOMAIN metaFile.doc.image_album
        /\ metaFile.doc.image_album[i] \in DOMAIN metaFile.doc.albums
        /\ \E k \in 1..Len(admin_get_images(s, NoDate, NoDate).body[2]) :
              admin_get_images(s, NoDate, NoDate).body[2][k].id = i
        /\ get_images(s, None, NoDate, NoDate).body[2] = <<>>
        /\ admin_get_images(t, NoDate, NoDate).status = 401

\* C13 as the claim states it: pin, description write, album assignment,
\* album create, update and delete, and album lock, asked by a caller who is
\* not admin, are refused and leave the metadata document, the description
\* files and the session state unchanged.
C13_MutationsAndLockAdminGated ==
    \A s \in Sessions :
        ~session[s].is_admin =>
            \A i \in RequestIds, a \in AlbumIds :
                LET Refused(r) == /\ r.status \in {401, 403, 404}
                                  /\ r.metaFile = metaFile
                                  /\ r.desc = desc
                                  /\ r.session = session
                IN  /\ \A b \in PinBodies : Refused(pin_image(s, i, b))
                    /\ \A d \in DescInputs : Refused(image_description_put(s, i, d))
                    /\ \A x \in AssignInputs : Refused(admin_set_image_album(s, i, x))
                    /\ \A n \in NameInputs, pw \in PwInputs :
                          /\ Refused(admin_albums(s, n, pw))
                          /\ Refused(admin_album_update(s, a, n, pw))
                    /\ Refused(admin_album_delete(s, a))
                    /\ Refused(lock_albums(s))

\* C13, amended: pin, description write, album assignment and album
\* create, update and delete, asked by a caller who is not admin, are refused
\* (401, or 404 for a description write on an id with no file) and leave the
\* metadata document, the files, the descriptions and the sessions unchanged;
\* album lock is open to every caller: it answers 200 and empties the caller's
\* own unlocked set, changing nothing else.
C13_MutationsAdminGated ==
    \A s \in Sessions :
        ~session[s].is_admin =>
            \A i \in RequestIds, a \in AlbumIds :
                LET Unchanged(r) == /\ r.metaFile = metaFile /\ r.files = files
                                    /\ r.desc = desc /\ r.session = session
                    Refused(r) == r.status = 401 /\ Unchanged(r)
                IN  /\ \A b \in PinBodies : Refused(pin_image(s, i, b))
                    /\ \A d \in DescInputs :
                          LET r == image_description_put(s, i, d) IN
                          /\ Unchanged(r)
                          /\ r.status = IF \E f \in files : f[2] = i THEN 401 ELSE 404
                    /\ \A x \in AssignInputs : Refused(admin_set_image_album(s, i, x))
                    /\ \A n \in NameInputs, pw \in PwInputs :
                          /\ Refused(admin_albums(s, n, pw))
                          /\ Refused(admin_album_update(s, a, n, pw))
                    /\ Refused(admin_album_delete(s, a))
                    /\ lock_albums(s).status = 200
                    /\ lock_albums(s).session =
                          [session EXCEPT ![s].unlocked_albums = {}]
                    /\ lock_albums(s).metaFile = metaFile
                    /\ lock_albums(s).desc = desc

\* A visitor who has unlocked a live album with an image in it asks for a
\* pin and is refused, and asks for a lock and is served.
C13_Witness ==
    \E s \in Sessions, i \in ImageIds :
        /\ ~session[s].is_admin
        /\ i \in ImageGroups
        /\ i \in DOMAIN metaFile.doc.image_album
        /\ metaFile.doc.image_album[i] \in session[s].unlocked_albums
        /\ metaFile.doc.image_album[i] \in DOMAIN metaFile.doc.albums
        /\ pin_image(s, i, None).status = 401
        /\ image_description_put(s, i, <<"h", "i", " ">>).status = 401
        /\ lock_albums(s).status = 200
        /\ lock_albums(s).session # session

\* C14: deleting an existing image removes every file whose stem is the
\* image id (derivatives, description, cached thumbnail, cached JPEG), its pin
\* flag and its album assignment, and a single-image lookup of the id after it,
\* by any caller, answers not-found, as it does for every id that has no file.
C14_DeleteRemovesImage ==
    [][/\ \A t \in Sessions, i \in RequestIds :
             (\A f \in files : f[2] # i) =>
                 /\ get_image(t, i).status = 404
                 /\ get_image(t, i).body = <<"error", "Image not found">>
       /\ \A s \in Sessions, i \in RequestIds :
             (delete_image(s, i).status = 200 /\ Apply(delete_image(s, i))) =>
                 /\ \A f \in files' : f[2] # i
                 /\ \A f \in files : f[2] # i => f \in files'
                 /\ i \notin DOMAIN desc'
                 /\ \A j \in DOMAIN desc : j # i => (j \in DOMAIN desc' /\ desc'[j] = desc[j])
                 /\ metaFile'.state = "ok"
                 /\ i \notin DOMAIN metaFile'.doc.pinned
                 /\ i \notin DOMAIN metaFile'.doc.image_album
                 /\ \A t \in Sessions :
                       /\ (get_image(t, i).status)' = 404
                       /\ (get_image(t, i).body)' = <<"error", "Image not found">>
      ]_vars

\* The admin session is about to delete an image that has its derivatives,
\* a description, a cached thumbnail and JPEG, a pin and a live album.
C14_Witness ==
    \E s \in Sessions, i \in ImageIds :
        /\ session[s].is_admin
        /\ {<<"webp", i>>, <<"avif", i>>, <<"txt", i>>, <<"thumb", i>>, <<"jpg", i>>}
              \subseteq files
        /\ i \in DOMAIN desc
        /\ i \in DOMAIN metaFile.doc.pinned
        /\ i \in DOMAIN metaFile.doc.image_album
        /\ metaFile.doc.image_album[i] \in DOMAIN metaFile.doc.albums
        /\ delete_image(s, i).status = 200
        /\ \A f \in delete_image(s, i).files : f[2] # i

\* C15 as the claim states it: once delete_image(id) has completed, id is
\* a key of none of the maps pinned, datetime and image_album of the metadata
\* document.
C15_DeleteRemovesAllEntries ==
    \A s \in Sessions, i \in RequestIds :
        LET r == delete_image(s, i) IN
        r.status = 200 =>
            /\ i \notin DOMAIN r.metaFile.doc.pinned
            /\ i \notin DOMAIN r.metaFile.doc.datetime
            /\ i \notin DOMAIN r.metaFile.doc.image_album

\* C16: deleting album A removes A from albums and every image_album entry
\* that maps to A, and nothing else: no file is deleted, the images that were
\* in A resolve to no album and are open to every caller, and the pinned map,
\* the datetime map, the other albums and the assignments to other albums are
\* as before.
C16_AlbumDeleteCascades ==
    [][\A s \in Sessions, a \in AlbumIds :
          (admin_album_delete(s, a).status = 200 /\ Apply(admin_album_delete(s, a))) =>
              LET old == metaFile.doc
                  new == metaFile'.doc
              IN  /\ metaFile.state = "ok" /\ metaFile'.state = "ok"
                  /\ DOMAIN new.albums = DOMAIN old.albums \ {a}
                  /\ \A b \in DOMAIN new.albums : new.albums[b] = old.albums[b]
                  /\ DOMAIN new.image_album =
                        {i \in DOMAIN old.image_album : old.image_album[i] # a}
                  /\ \A i \in DOMAIN new.image_album :
                        new.image_album[i] = old.image_album[i]
                  /\ \A i \in DOMAIN old.image_album :
                        old.image_album[i] = a =>
                            /\ (_get_image_album_id(i))' = None
                            /\ \A t \in Sessions : (_can_access_image(t, i))'
                  /\ new.pinned = old.pinned
                  /\ new.datetime = old.datetime
                  /\ files' = files /\ desc' = desc /\ session' = session
      ]_vars

\* The admin session is about to delete an album that holds an image, while
\* another album holds another image, one image is pinned and a visitor has
\* nothing unlocked.
C16_Witness ==
    \E s \in Sessions, t \in Sessions, i \in ImageIds, j \in ImageIds :
        /\ session[s].is_admin
        /\ ~session[t].is_admin /\ session[t].unlocked_albums = {}
        /\ {i, j} \subseteq ImageGroups
        /\ {i, j} \subseteq DOMAIN metaFile.doc.image_album
        /\ metaFile.doc.image_album[i] # metaFile.doc.image_album[j]
        /\ {metaFile.doc.image_album[i], metaFile.doc.image_album[j]}
              \subseteq DOMAIN metaFile.doc.albums
        /\ metaFile.doc.pinned # EmptyMap
        /\ ~_can_access_image(t, i)
        /\ admin_album_delete(s, metaFile.doc.image_album[i]).status = 200
        /\ i \notin DOMAIN admin_album_delete(s, metaFile.doc.image_album[i]).metaFile.doc.image_album
        /\ j \in DOMAIN admin_album_delete(s, metaFile.doc.image_album[i]).metaFile.doc.image_album

\* C17: a successful album create assigns an id that was no key of albums
\* before the call: the slug of the name, or on collision slug-2, slug-3, ...,
\* the first that is free; no album that existed is changed and albums grows
\* by exactly one.
C17_CreateNeverOverwrites ==
    \A s \in Sessions, pw \in PwInputs,
       n \in NameInputs \cup {<<"A", " ", "P">>, <<".">>, <<"a", "-", "2">>} :
        LET r == admin_albums(s, n, pw)
            old == _load_meta.albums
            new == r.metaFile.doc.albums
            aid == r.body[2]
            slug == StrLower(secure_filename(Strip(OrEmpty(n))))
            base == IF slug = <<>> THEN <<"a", "l", "b", "u", "m">> ELSE slug
            Suffixed(k) == base \o <<"-">> \o IntStr(k)
        IN  r.status = 201 =>
                /\ aid \notin DOMAIN old
                /\ DOMAIN new = DOMAIN old \cup {aid}
                /\ Cardinality(DOMAIN new) = Cardinality(DOMAIN old) + 1
                /\ \A b \in DOMAIN old : new[b] = old[b]
                /\ new[aid].name = Strip(n)
                /\ IF base \notin DOMAIN old THEN aid = base
                   ELSE \E k \in 2..(Cardinality(DOMAIN old) + 2) :
                          /\ aid = Suffixed(k)
                          /\ \A j \in 2..(k - 1) : Suffixed(j) \in DOMAIN old

\* Albums a and a-2 exist; the admin session creating another album of the
\* same name is given a-3, and one named "a-2" is given a-2-2.
C17_Witness ==
    \E s \in Sessions :
        /\ session[s].is_admin
        /\ DOMAIN metaFile.doc.albums = {<<"a">>, <<"a", "-", "2">>}
        /\ admin_albums(s, <<" ", "A">>, <<"p">>).status = 201
        /\ admin_albums(s, <<" ", "A">>, <<"p">>).body[2] = <<"a", "-", "3">>
        /\ admin_albums(s, <<"a", "-", "2">>, <<"p">>).body[2] = <<"a", "-", "2", "-", "2">>

\* C18: for an existing image a pin request with no body sets the pinned
\* state to the negation of the current one (never pinned becomes pinned), a
\* second such request on the document the first one stored restores the
\* pinned map exactly (an unpinned image has no key), and no other field of
\* the metadata, no file, description or session changes.
C18_PinToggles ==
    \A s \in Sessions, i \in RequestIds :
        LET r == pin_image(s, i, None)
            old == _load_meta
            new == r.metaFile.doc
            was == i \in DOMAIN old.pinned
            again == PinMeta(new, i, None)
        IN  (session[s].is_admin /\ \E f \in files : f[2] = i) =>
                /\ r.status = 200
                /\ r.body = <<"pinned", i, ~was>>
                /\ r.metaFile.state = "ok"
                /\ DOMAIN new.pinned =
                      IF was THEN DOMAIN old.pinned \ {i} ELSE DOMAIN old.pinned \cup {i}
                /\ \A j \in DOMAIN new.pinned : new.pinned[j] = TRUE
                /\ new.datetime = old.datetime
                /\ new.albums = old.albums
                /\ new.image_album = old.image_album
                /\ r.files = files /\ r.desc = desc /\ r.session = session
                /\ PinNewState(new, i, None) = was
                /\ again.pinned = old.pinned
                /\ again = old

\* The admin session is about to toggle an image that was never pinned while
\* another image is pinned.
C18_Witness ==
    \E s \in Sessions, i \in ImageIds, j \in ImageIds :
        /\ session[s].is_admin
        /\ {i, j} \subseteq ImageGroups
        /\ i \notin DOMAIN metaFile.doc.pinned
        /\ j \in DOMAIN metaFile.doc.pinned
        /\ pin_image(s, i, None).status = 200
        /\ DOMAIN pin_image(s, i, None).metaFile.doc.pinned = {i, j}
        /\ PinMeta(pin_image(s, i, None).metaFile.doc, i, None) = metaFile.doc

\* C19: two pin requests on different images that both load the document
\* before either saves it lose one update: once both have answered success
\* the stored document, when it is whole, is the loaded one with exactly one
\* of the two pins toggled, never with both.
C19_LostUpdate ==
    \A k \in Slots, l \in Slots :
        (/\ k # l
         /\ reqs[k].stage = "done" /\ reqs[l].stage = "done"
         /\ reqs[k].image # reqs[l].image
         /\ reqs[k].base = reqs[l].base
         /\ metaFile.state = "ok")
        => LET old == reqs[k].base.pinned
               Toggled(i) == IF i \in DOMAIN old
                             THEN [x \in DOMAIN old \ {i} |-> old[x]]
                             ELSE [x \in DOMAIN old \cup {i} |->
                                      IF x = i THEN TRUE ELSE old[x]]
           IN  /\ metaFile.doc.pinned \in {Toggled(reqs[k].image), Toggled(reqs[l].image)}
               /\ ~(/\ (reqs[k].image \in DOMAIN metaFile.doc.pinned)
                         # (reqs[k].image \in DOMAIN old)
                    /\ (reqs[l].image \in DOMAIN metaFile.doc.pinned)
                         # (reqs[l].image \in DOMAIN old))

\* Both requests loaded the same document in which neither image was
\* pinned, both answered success, and the stored document pins the image of
\* the second request only.
C19_Witness ==
    /\ reqs[1].stage = "done" /\ reqs[2].stage = "done"
    /\ reqs[1].image # reqs[2].image
    /\ reqs[1].base = reqs[2].base
    /\ reqs[1].base.pinned = EmptyMap
    /\ metaFile.state = "ok"
    /\ DOMAIN metaFile.doc.pinned = {reqs[2].image}

\* C20 as the claim states it: under every interleaving of saves and
\* loads, all saves using the one temporary path, the file a load reads is
\* absent (the initial document) or holds, whole, a document some save was
\* called with (state "ok"); it is never truncated ("empty") or partially
\* written ("torn").
C20_SaveIsAtomicForReaders ==
    metaFile.state \in {"missing", "ok"}

\* C22: load returns the empty document when the metadata file is missing
\* or malformed (truncated, partially written), so a mutation that follows
\* such a read saves a document that holds only the field it modified: all
\* that was stored before is dropped.
C22_MalformedReadsAsEmpty ==
    metaFile.state # "ok" =>
        /\ _load_meta = EmptyDoc
        /\ \A s \in Sessions, i \in RequestIds :
              (session[s].is_admin /\ \E f \in files : f[2] = i) =>
                  /\ pin_image(s, i, None).status = 200
                  /\ pin_image(s, i, None).metaFile =
                        [state |-> "ok",
                         doc |-> [pinned |-> [x \in {i} |-> TRUE],
                                  datetime |-> EmptyMap,
                                  albums |-> EmptyMap,
                                  image_album |-> EmptyMap]]
        /\ \A s \in Sessions :
              session[s].is_admin =>
                  /\ admin_albums(s, <<" ", "A">>, <<"p">>).status = 201
                  /\ admin_albums(s, <<" ", "A">>, <<"p">>).metaFile.doc.datetime = EmptyMap
                  /\ DOMAIN admin_albums(s, <<" ", "A">>, <<"p">>).metaFile.doc.albums
                        = {<<"a">>}

\* The file is partially written over a document that recorded the date of
\* an image on disk, and a pin request that read it has stored a document with
\* its pin alone.
C22_Witness ==
    \E k \in Slots, l \in Slots :
        /\ reqs[k].stage = "done"
        /\ reqs[k].base = EmptyDoc
        /\ files # {}
        /\ metaFile.state = "ok"
        /\ metaFile.doc.datetime = EmptyMap
        /\ DOMAIN metaFile.doc.pinned = {reqs[k].image}
        /\ reqs[l].stage # "idle"
        /\ reqs[l].base.datetime # EmptyMap

C24_ThumbnailSearchTerminates ==
    \A k \in Slots :
        /\ [](reqs[k].stage \in {"search", "writing", "written"} =>
                /\ reqs[k].max_side \in {640, 544, 462, 392, 333, 283, 240}
                /\ reqs[k].quality \in {76, 68, 60, 52, 44, 36}
                /\ reqs[k].attempts <= 7 * 6)
        /\ (reqs[k].stage = "search" ~> reqs[k].stage = "written")

\* A search all of whose 42 attempts were above the budget has returned.
C24_Witness ==
    \E k \in Slots :
        /\ reqs[k].stage = "written"
        /\ reqs[k].attempts = 42
        /\ reqs[k].size > THUMB_MAX_BYTES

\* C25: a thumbnail that is written weighs at most 30,720 bytes, unless the
\* search stood at the smallest dimension (240) with a quality no longer
\* above 40, where the last attempt is written as it is; a generation calls
\* the write exactly once, when it stops searching.
C25_ThumbnailWithinBudgetOrFloor ==
    \A k \in Slots :
        /\ reqs[k].stage = "search" => reqs[k].writes = 0
        /\ reqs[k].stage \in {"writing", "written"} =>
              /\ reqs[k].writes = 1
              /\ \/ reqs[k].size <= 30720
                 \/ reqs[k].max_side = 240 /\ reqs[k].quality <= 40

\* One generation wrote an attempt within the budget after some that were
\* not, while another wrote at both floors a thumbnail above the budget.
C25_Witness ==
    \E k \in Slots, l \in Slots :
        /\ reqs[k].stage = "written"
        /\ reqs[k].size <= 30720
        /\ reqs[k].attempts > 1
        /\ reqs[l].stage = "written"
        /\ reqs[l].size > 30720
        /\ reqs[l].max_side = 240
        /\ reqs[l].quality = 36

\* C21: derivative writes are atomic: whoever reads the final path of a
\* WebP, an AVIF, a thumbnail or a download JPEG finds no file or a complete
\* one, and a thumbnail request that finds the path existing while another
\* request is writing it is not sent an incomplete file.
C21_DerivativeWritesAreAtomic ==
    /\ \A f \in files :
          f[1] \in {"webp", "avif", "thumb", "jpg"} => f \notin Incomplete
    /\ \A s \in Sessions, i \in RequestIds : \A src \in Sources(i) :
          serve_thumbnail(s, i, src).status = 200 =>
              serve_thumbnail(s, i, src).body[2] \notin Incomplete

C27_ReuploadSameId ==
    \A e \in {NoDate, 1, 2}, n1 \in {1, 2}, n2 \in {1, 2}, h \in {1, 2} :
        LET capture(n) == IF e # NoDate THEN e ELSE n
            id1 == ImageId(e, n1, h)
            f2 == UploadFile("ok", ImageId(e, n2, h), TRUE)
        IN  capture(n1) = capture(n2) =>
                /\ id1 = <<capture(n1), h>>
                /\ f2.id = id1
                /\ \A s \in Sessions :
                      LET r == upload_image(s, <<"O", "n">>, None, <<f2>>) IN
                      (/\ session[s].is_admin
                       /\ {<<"webp", id1>>, <<"avif", id1>>} \subseteq files
                       /\ metaFile.state = "ok"
                       /\ id1 \in DOMAIN metaFile.doc.datetime) =>
                          /\ r.status = 200
                          /\ r.body[2] = <<id1>>
                          /\ r.files = files
                          /\ {x[2] : x \in r.files} = {x[2] : x \in files}
                          /\ r.metaFile.doc.datetime = metaFile.doc.datetime
                          /\ r.metaFile = metaFile

\* The image taken at time 1 is on disk with its date, next to another, and
\* an upload of the same bytes at a later time resolves to its id.
C27_Witness ==
    /\ {<<"webp", <<1, 1>>>>, <<"avif", <<1, 1>>>>, <<"webp", <<2, 1>>>>} \subseteq files
    /\ metaFile.state = "ok"
    /\ <<1, 1>> \in DOMAIN metaFile.doc.datetime
    /\ ImageId(1, 2, 1) = <<1, 1>>
    /\ \E s \in Sessions :
          upload_image(s, <<"O", "n">>, None, <<UploadFile("ok", ImageId(1, 2, 1), TRUE)>>).status = 200

\* C28: in a batch every file ends in exactly one of uploaded and errors, a
\* file that is turned down (bad extension, RAW without decoder, oversize,
\* decode failure, no name) does not stop the files after it and adds no
\* image and no metadata entry, and the status is 200 if and only if at least
\* one file succeeded.
C28_UploadIsolatesFiles ==
    \A s \in Sessions, b \in UploadBatches :
        LET r == upload_image(s, <<"O", "n">>, None, b)
            good == SelectSeq(b, LAMBDA f : f.kind = "ok")
            bad == SelectSeq(b, LAMBDA f : f.kind # "ok")
            now == IF metaFile.state = "ok" THEN metaFile.doc ELSE EmptyDoc
        IN  UploadRefusal(s, <<"O", "n">>, None, b) = <<>> =>
                /\ r.body[1] = "uploaded"
                /\ r.body[2] = [k \in 1..Len(good) |-> good[k].id]
                /\ Len(r.body[3]) = Len(bad)
                /\ Len(r.body[2]) + Len(r.body[3]) = Len(b)
                /\ (r.status = 200) = (good # <<>>)
                /\ r.status \in {200, 400}
                /\ r.files = files \cup
                      UNION {convert_and_save_image(good[k]) : k \in 1..Len(good)}
                /\ good = <<>> => r.metaFile = metaFile
                /\ good # <<>> =>
                      /\ r.metaFile.state = "ok"
                      /\ DOMAIN r.metaFile.doc.datetime =
                            DOMAIN now.datetime \cup {good[k].id : k \in 1..Len(good)}
                      /\ r.metaFile.doc.pinned = now.pinned
                      /\ r.metaFile.doc.image_album = now.image_album

\* A batch whose first file was turned down and whose second was stored has
\* been answered: the second image is on disk with its date and nothing of
\* the first is; a batch of a file the decoder fails on, with the id of the
\* other image, followed by a good file is answered 200 with one error.
C28_Witness ==
    /\ {x[2] : x \in files} = {<<2, 1>>}
    /\ metaFile.state = "ok"
    /\ DOMAIN metaFile.doc.datetime = {<<2, 1>>}
    /\ \E s \in Sessions :
          LET r == upload_image(s, <<"O", "n">>, None,
                      <<UploadFile("corrupt", ImageId(2, 1, 1), TRUE),
                        UploadFile("ok", ImageId(1, 2, 1), TRUE)>>)
          IN  /\ r.status = 200
              /\ r.body[2] = <<<<1, 1>>>>
              /\ Len(r.body[3]) = 1

C30_CachedDerivativesAreWriteOnce ==
    [][\A i \in RequestIds :
          /\ <<"thumb", i>> \in files =>
                /\ \A s \in Sessions : \A src \in Sources(i) :
                      _require_image_access_or_404(s, i) = <<>> =>
                          /\ ThumbWrites(i, src) = {}
                          /\ serve_thumbnail(s, i, src).status = 200
                          /\ serve_thumbnail(s, i, src).body = <<"file", <<"thumb", i>>>>
                          /\ serve_thumbnail(s, i, src).files = files
                /\ <<"thumb", i>> \notin files' =>
                      \E s \in Sessions :
                          delete_image(s, i).status = 200 /\ Apply(delete_image(s, i))
          /\ <<"jpg", i>> \in files =>
                /\ \A s \in Sessions : \A src \in Sources(i) :
                      _require_image_access_or_404(s, i) = <<>> =>
                          /\ JpgWrites(i, src) = {}
                          /\ download_image(s, i, STR_jpg, src).status = 200
                          /\ download_image(s, i, STR_jpg, src).body = <<"file", <<"jpg", i>>>>
                          /\ download_image(s, i, STR_jpg, src).files = files
                /\ <<"jpg", i>> \notin files' =>
                      \E s \in Sessions :
                          delete_image(s, i).status = 200 /\ Apply(delete_image(s, i))
      ]_vars

\* Both derivatives of an image are cached, the image has since been moved
\* to an album and pinned, and both of another image were removed by its
\* deletion.
C30_Witness ==
    /\ {<<"thumb", <<1, 1>>>>, <<"jpg", <<1, 1>>>>, <<"webp", <<1, 1>>>>} \subseteq files
    /\ metaFile.state = "ok"
    /\ <<1, 1>> \in DOMAIN metaFile.doc.pinned
    /\ <<1, 1>> \in DOMAIN metaFile.doc.image_album
    /\ <<2, 1>> \in DOMAIN metaFile.doc.datetime
    /\ \A f \in files : f[2] # <<2, 1>>
    /\ \E s \in Sessions : serve_thumbnail(s, <<1, 1>>, <<"avif", <<1, 1>>>>).status = 200

\* C31: in the thumbnail search the quality is reduced before the
\* dimension: an attempt is made at a dimension of 640, 544, 462, 392, 333,
\* 283 or 240 and a quality of 76, 68, 60, 52, 44 or 36; after an oversized
\* attempt the search keeps the dimension and lowers the quality by 8 while
\* the quality is above 40, and otherwise moves to the next dimension with
\* quality 76.
C31_QualityBeforeDimension ==
    [][\A k \in Slots :
          (/\ reqs[k].stage = "search"
           /\ reqs'[k].stage = "search"
           /\ reqs'[k].attempts = reqs[k].attempts + 1) =>
              /\ reqs[k].max_side \in {640, 544, 462, 392, 333, 283, 240}
              /\ reqs[k].quality \in {76, 68, 60, 52, 44, 36}
              /\ reqs'[k].size > 30720
              /\ reqs[k].quality > 40 =>
                    /\ reqs'[k].max_side = reqs[k].max_side
                    /\ reqs'[k].quality = reqs[k].quality - 8
              /\ reqs[k].quality <= 40 =>
                    /\ reqs[k].max_side > 240
                    /\ <<reqs[k].max_side, reqs'[k].max_side>> \in
                          {<<640, 544>>, <<544, 462>>, <<462, 392>>, <<392, 333>>,
                           <<333, 283>>, <<283, 240>>}
                    /\ reqs'[k].quality = 76
      ]_vars

\* A search stands at the second dimension with quality 76 after six
\* oversized attempts at the first.
C31_Witness ==
    \E k \in Slots :
        /\ reqs[k].stage = "search"
        /\ reqs[k].max_side = 544
        /\ reqs[k].quality = 76
        /\ reqs[k].attempts = 6
        /\ reqs[k].size > 30720

\* C32: with requests run one at a time (upload, album assignment, album
\* create, update and delete, image delete, pin) every value of image_album
\* is a key of albums.
C32_AssignmentsNameLiveAlbums ==
    \A i \in DOMAIN _load_meta.image_album :
        _load_meta.image_album[i] \in DOMAIN _load_meta.albums

\* An image is assigned to the one album left, the other image is on disk,
\* pinned and unassigned, and the album was renamed.
C32_Witness ==
    /\ metaFile.state = "ok"
    /\ Cardinality(DOMAIN metaFile.doc.albums) = 1
    /\ Cardinality(DOMAIN metaFile.doc.image_album) = 1
    /\ \E i \in ImageIds :
          /\ i \notin DOMAIN metaFile.doc.image_album
          /\ <<"webp", i>> \in files
          /\ i \in DOMAIN metaFile.doc.pinned
    /\ \E a \in DOMAIN metaFile.doc.albums : metaFile.doc.albums[a].name = <<"B">>

\* C33: an unlock does not outlive the album it was granted for: a session
\* that is not admin reaches album X and its images only if it supplied a
\* matching password since X's current password hash was set.  Right after a
\* request has set that hash (creation of X, again after a delete or for the
\* first time, or a password update) no session has done so, and X and the
\* images assigned to it are closed to every session that is not admin.
C33_UnlockDiesWithTheAlbum ==
    [][\A X \in AlbumIds, s \in Sessions :
          (/\ X \in DOMAIN (_load_meta.albums)'
           /\ \/ X \notin DOMAIN _load_meta.albums
              \/ (_load_meta.albums[X].password_hash)'
                    # _load_meta.albums[X].password_hash
           /\ ~(_is_admin(s))') =>
              /\ ~(_can_access_album(s, X))'
              /\ \A i \in ImageIds :
                    (_get_image_album_id(i) = X)' => ~(_can_access_image(s, i))'
      ]_vars

\* C34: an image that is being uploaded into a private album A is at no
\* instant visible to a caller who is not admin and has not unlocked A while
\* A exists: in no state of an upload are the files of the image on disk
\* while its image_album entry for A is not stored, so no such caller is
\* granted the image or finds it in a listing.
C34_UploadNeverExposesAlbumImage ==
    (/\ upl.stage \in {"validated", "converted"}
     /\ upl.upload_album_id # None
     /\ upl.upload_album_id \in DOMAIN _load_meta.albums
     /\ \E f \in files : f[2] = upl.file.id) =>
        /\ Get(_load_meta.image_album, upl.file.id) = upl.upload_album_id
        /\ \A s \in Sessions :
              (~_is_admin(s) /\ upl.upload_album_id \notin _unlocked_album_ids(s)) =>
                  /\ ~_can_access_image(s, upl.file.id)
                  /\ \A k \in 1..Len(get_images(s, None, NoDate, NoDate).body[2]) :
                        get_images(s, None, NoDate, NoDate).body[2][k].id # upl.file.id

\* C35: after a successful upload marked public (public flag set, no album
\* id) the uploaded image resolves to no album, also when an image of the
\* same id was on disk before and assigned to a live album.
C35_PublicUploadIsPublic ==
    \A s \in Sessions, f \in FileInputs :
        LET r == upload_image(s, <<"O", "n">>, None, <<f>>) IN
        r.status = 200 =>
            /\ r.metaFile.state = "ok"
            /\ f.id \notin DOMAIN r.metaFile.doc.image_album
            /\ ListAlbumId(r.metaFile.doc, f.id) = None

\* C36: to a caller who is not admin every admin-gated image mutation (pin,
\* description write, album assignment, image delete) answers the same for an
\* image on disk that the caller is not granted (it is in a private album) as
\* for an id that does not exist.
C36_MutationsHidePrivateImages ==
    \A s \in Sessions, i \in ImageIds :
        (~_is_admin(s) /\ _find_files_by_id(i) # {} /\ ~_can_access_image(s, i)) =>
            /\ \A b \in PinBodies :
                  /\ pin_image(s, i, b).status = pin_image(s, GhostId, b).status
                  /\ pin_image(s, i, b).body = pin_image(s, GhostId, b).body
            /\ \A a \in AssignInputs :
                  /\ admin_set_image_album(s, i, a).status
                        = admin_set_image_album(s, GhostId, a).status
                  /\ admin_set_image_album(s, i, a).body
                        = admin_set_image_album(s, GhostId, a).body
            /\ delete_image(s, i).status = delete_image(s, GhostId).status
            /\ delete_image(s, i).body = delete_image(s, GhostId).body
            /\ \A d \in DescInputs :
                  /\ image_description_put(s, i, d).status
                        = image_description_put(s, GhostId, d).status
                  /\ image_description_put(s, i, d).body
                        = image_description_put(s, GhostId, d).body

\* C37: deletion wins over lazy generation that runs at the same time: once
\* the delete of an image and the thumbnail requests for it have completed,
\* no file of the image exists and a lookup of its id answers not found.
\* (An image whose date is stored and whose WebP and AVIF are gone has been
\* deleted: an upload writes the three together.)
C37_DeletionWins ==
    \A i \in ImageIds :
        (/\ \A k \in Slots : reqs[k].stage = "idle"
         /\ i \in DOMAIN _load_meta.datetime
         /\ <<"webp", i>> \notin files
         /\ <<"avif", i>> \notin files) =>
            /\ _find_files_by_id(i) = {}
            /\ \A s \in Sessions : get_image(s, i).status = 404

====
